---- MODULE Spec2Model ----
(***************************************************************************)
(* Monthly aggregation and collateral/APR analytics of the wheel tracker:  *)
(* monthlyHandler, calculateMaxCollateral and buildMonthlyData of          *)
(* internal/web/monthly_handlers.go.                                       *)
(*                                                                         *)
(* Numbers.  The Go code computes in float64.  Money amounts are modelled  *)
(* as integers (sums, differences and products of integers of this size    *)
(* are exact in float64); the one division of the code, the APR, is        *)
(* modelled as an exact fraction with the IEEE-754 outcomes of a division  *)
(* by zero (+Inf, -Inf, NaN) kept as values.  Rounding of a quotient to    *)
(* the nearest double is not modelled.                                     *)
(*                                                                         *)
(* Strings.  A Go string that the code formats, parses or compares is a    *)
(* sequence of byte codes ("2024-01" is <<50,48,50,52,45,48,49>>); ticker  *)
(* symbols, which are only compared for equality, are TLA+ strings.        *)
(***************************************************************************)
EXTENDS Integers, Sequences, FiniteSets, TLC

VARIABLES
    symbols,            \* []string of symbolService.GetDistinctSymbols
    options,            \* []*models.Option held by optionService
    optionsIndex,       \* map of optionService.Index
    dividends,          \* []*models.Dividend held by dividendService
    longPositions,      \* []*models.LongPosition held by longPositionService
    now,                \* time.Now() of the request
    query,              \* r.URL.Query(): [from, to]
    pc,                 \* position of the operation under way
    fromMonth,          \* range in use (monthlyHandler / buildMonthlyData)
    toMonth,
    data,               \* MonthlyData returned by buildMonthlyData
    ym,                 \* calculateMaxCollateral: the target month key
    events,             \* calculateMaxCollateral: the event slice
    initialCollateral,  \* calculateMaxCollateral: collateral at month start
    current,            \* calculateMaxCollateral: running total of the sweep
    maxCollateral,      \* calculateMaxCollateral: peak so far / returned value
    swept,              \* calculateMaxCollateral: number of events applied
    failed,             \* monthlyHandler: the retrievals that returned an error
    results,            \* []SymbolMonthlyResult returned by buildSymbolMonthlyResults
    invocations,        \* concurrent calls of buildMonthlyData: their local variables
    request,            \* symbol API: the request being served
    response,           \* symbol API: the status code written, NoResponse before
    symbolTable,        \* the rows symbolService holds, by symbol
    calls               \* symbol API: the service calls made for the request

vars == <<symbols, options, optionsIndex, dividends, longPositions, now, query, pc,
          fromMonth, toMonth, data, ym, events, initialCollateral, current, maxCollateral,
          swept, failed, results, invocations, request, response, symbolTable, calls>>

\* the variables of the symbol API handlers
requestVars == <<request, response, symbolTable, calls>>

-----------------------------------------------------------------------------
(* Bounds of the model *)

\* records of each kind held when a symbol is deleted (SpecDelete)
MaxDeletedRecords == 1

\* records held by the three services together (Spec)
MaxRecords == 3
\* records held by each service when a request is served (SpecHandler)
MaxHandlerRecords == 1
\* options handed to buildSymbolMonthlyResults (SpecSymbol)
MaxSymbolOptions == 3
\* records shared by the concurrent calls of buildMonthlyData (SpecConcurrent)
MaxSharedRecords == 2
\* options and long positions handed to calculateMaxCollateral (SpecCollateral)
MaxSweepRecords == 2

-----------------------------------------------------------------------------
(* Generic helpers *)

SeqsUpTo(S, n) == UNION {[1..k -> S] : k \in 0..n}

RECURSIVE SumSeq(_)
SumSeq(s) == IF s = <<>> THEN 0 ELSE s[1] + SumSeq(Tail(s))

RECURSIVE SumOver(_, _)
\* sum of the function f over the finite set S of its arguments
SumOver(f, S) ==
    IF S = {} THEN 0
    ELSE LET x == CHOOSE e \in S : TRUE IN f[x] + SumOver(f, S \ {x})

RemoveAt(s, i) == [j \in 1..(Len(s) - 1) |-> IF j < i THEN s[j] ELSE s[j + 1]]

\* every sequence that lists each element of the finite set S once
Orderings(S) ==
    {o \in [1..Cardinality(S) -> S] : \A i, j \in 1..Cardinality(S) : o[i] = o[j] => i = j}

-----------------------------------------------------------------------------
(* time.Time at day resolution: [y, m, d].  NoDate is a nil *time.Time. *)

NoDate == [y |-> 0, m |-> 0, d |-> 0]

IsLeap(y) == (y % 4 = 0 /\ y % 100 # 0) \/ y % 400 = 0

DaysIn(y, m) ==
    IF m = 2 THEN (IF IsLeap(y) THEN 29 ELSE 28)
    ELSE IF m \in {4, 6, 9, 11} THEN 30 ELSE 31

RECURSIVE NormDay(_, _, _)
\* day overflow of time.Date: the day is counted on from the first of the month
NormDay(y, m, d) ==
    IF d > DaysIn(y, m)
    THEN IF m = 12 THEN NormDay(y + 1, 1, d - DaysIn(y, m))
         ELSE NormDay(y, m + 1, d - DaysIn(y, m))
    ELSE IF d < 1
    THEN IF m = 1 THEN NormDay(y - 1, 12, d + DaysIn(y - 1, 12))
         ELSE NormDay(y, m - 1, d + DaysIn(y, m - 1))
    ELSE [y |-> y, m |-> m, d |-> d]

\* time.Date(y, m, d, 0, 0, 0, 0, time.UTC): month, then day, are normalised
Date(y, m, d) == NormDay(y + ((m - 1) \div 12), ((m - 1) % 12) + 1, d)

\* t.AddDate(years, months, days)
AddDate(t, years, months, days) == Date(t.y + years, t.m + months, t.d + days)

\* t.Before(u)
Before(t, u) ==
    \/ t.y < u.y
    \/ t.y = u.y /\ t.m < u.m
    \/ t.y = u.y /\ t.m = u.m /\ t.d < u.d

-----------------------------------------------------------------------------
(* Go strings as byte sequences *)

EmptyStr == <<>>
Dash == <<45>>

Digit(n) == 48 + n

RECURSIVE Decimal(_)
\* the decimal digits of n >= 0
Decimal(n) == IF n < 10 THEN <<Digit(n)>> ELSE Decimal(n \div 10) \o <<Digit(n % 10)>>

RECURSIVE ZeroPad(_, _)
\* %0<w>d: zeros on the left up to width w, never a truncation
ZeroPad(s, w) == IF Len(s) >= w THEN s ELSE ZeroPad(<<Digit(0)>> \o s, w)

\* fmt.Sprintf("%04d-%02d", year, month)
SprintfYearMonth(year, month) ==
    ZeroPad(Decimal(year), 4) \o Dash \o ZeroPad(Decimal(month), 2)

RECURSIVE StrLess(_, _)
\* a < b on Go strings: bytewise, a proper prefix is smaller
StrLess(a, b) ==
    IF b = <<>> THEN FALSE
    ELSE IF a = <<>> THEN TRUE
    ELSE IF a[1] # b[1] THEN a[1] < b[1]
    ELSE StrLess(Tail(a), Tail(b))

IsDigit(c) == c >= 48 /\ c <= 57

RECURSIVE ScanDigits(_, _, _, _)
\* %0<w>d of Sscanf: at most w digits from position p on; [val, next, ok]
ScanDigits(s, p, w, acc) ==
    IF w > 0 /\ p <= Len(s) /\ IsDigit(s[p])
    THEN ScanDigits(s, p + 1, w - 1, [val |-> acc.val * 10 + (s[p] - 48), next |-> p + 1, ok |-> TRUE])
    ELSE acc

\* fmt.Sscanf(s, "%04d-%02d", &year, &month): a variable that is not scanned
\* keeps its zero value
SscanfYearMonth(s) ==
    LET y == ScanDigits(s, 1, 4, [val |-> 0, next |-> 1, ok |-> FALSE])
        dashOk == y.ok /\ y.next <= Len(s) /\ s[y.next] = 45
        m == IF dashOk
             THEN ScanDigits(s, y.next + 1, 2, [val |-> 0, next |-> y.next + 1, ok |-> FALSE])
             ELSE [val |-> 0, next |-> y.next, ok |-> FALSE]
    IN  [year |-> y.val, month |-> m.val]

-----------------------------------------------------------------------------
(* float64 quotients: [num, den] in lowest terms with den > 0; den = 0 is   *)
(* the result of a division by zero: num 1 is +Inf, -1 is -Inf, 0 is NaN.   *)

Abs(x) == IF x < 0 THEN -x ELSE x

RECURSIVE Gcd(_, _)
Gcd(a, b) == IF b = 0 THEN a ELSE Gcd(b, a % b)

Frac(n, d) ==
    LET g == Gcd(Abs(n), Abs(d))
        s == IF d < 0 THEN -1 ELSE 1
    IN  [num |-> s * (n \div g), den |-> s * (d \div g)]

FloatOfInt(n) == [num |-> n, den |-> 1]

\* a / b on float64 values that are integers
FloatDiv(a, b) ==
    IF b = 0
    THEN [num |-> IF a > 0 THEN 1 ELSE IF a < 0 THEN -1 ELSE 0, den |-> 0]
    ELSE Frac(a, b)

\* f * k for an integer constant k > 0
FloatMulInt(f, k) == IF f.den = 0 THEN f ELSE Frac(f.num * k, f.den)

IsFinite(f) == f.den # 0

-----------------------------------------------------------------------------
(* Records.  Option: [Symbol, Type, Opened, Closed, Strike, Contracts,      *)
(* TotalProfit]; Dividend: [Symbol, Received, Amount]; LongPosition:        *)
(* [Symbol, Opened, Closed, Shares, BuyPrice, ExitPrice].                   *)

\* option.CalculateTotalProfit(): the realized profit of the option, a given
\* number of the record
CalculateTotalProfit(option) == option.TotalProfit

\* position.GetExitPriceValue(): the exit price of the position
GetExitPriceValue(position) == position.ExitPrice

-----------------------------------------------------------------------------
(* calculateMaxCollateral *)

Event(date, delta) == [date |-> date, delta |-> delta]

\* the month of a key: [startDate, endDate)
MonthStart(key) ==
    LET p == SscanfYearMonth(key) IN Date(p.year, p.month, 1)

MonthEnd(key) == AddDate(MonthStart(key), 0, 1, 0)

\* the loop over options without the test of the option type
ScanOption_AnyType(acc, opt, startDate, endDate) ==
    LET putStillActive == opt.Closed = NoDate
        closeDate == opt.Closed
        collateral == opt.Strike * opt.Contracts * 100
        closes == ~putStillActive /\ Before(closeDate, endDate)
    IN  IF ~Before(opt.Opened, endDate) THEN acc
        ELSE IF ~putStillActive /\ Before(closeDate, startDate) THEN acc
        ELSE IF Before(opt.Opened, startDate)
        THEN [initial |-> acc.initial + collateral,
              events  |-> IF closes THEN Append(acc.events, Event(closeDate, -collateral))
                          ELSE acc.events]
        ELSE [initial |-> acc.initial,
              events  |-> IF closes
                          THEN acc.events \o <<Event(opt.Opened, collateral), Event(closeDate, -collateral)>>
                          ELSE Append(acc.events, Event(opt.Opened, collateral))]

\* one iteration of the loop over options: the pair [initial, events] after opt
ScanOption(acc, opt, startDate, endDate) ==
    LET putStillActive == opt.Closed = NoDate
        closeDate == opt.Closed
        collateral == opt.Strike * opt.Contracts * 100
        closes == ~putStillActive /\ Before(closeDate, endDate)
    IN  IF opt.Type # "Put" THEN acc
        ELSE IF ~Before(opt.Opened, endDate) THEN acc
        ELSE IF ~putStillActive /\ Before(closeDate, startDate) THEN acc
        ELSE IF Before(opt.Opened, startDate)
        THEN [initial |-> acc.initial + collateral,
              events  |-> IF closes THEN Append(acc.events, Event(closeDate, -collateral))
                          ELSE acc.events]
        ELSE [initial |-> acc.initial,
              events  |-> IF closes
                          THEN acc.events \o <<Event(opt.Opened, collateral), Event(closeDate, -collateral)>>
                          ELSE Append(acc.events, Event(opt.Opened, collateral))]

\* the loop over long positions treating a position opened before the month
\* as one opened in it
ScanPosition_NoInitial(acc, pos, startDate, endDate) ==
    LET posStillActive == pos.Closed = NoDate
        closeDate == pos.Closed
        costBasis == pos.BuyPrice * pos.Shares
        closes == ~posStillActive /\ Before(closeDate, endDate)
    IN  IF ~Before(pos.Opened, endDate) THEN acc
        ELSE IF ~posStillActive /\ Before(closeDate, startDate) THEN acc
        ELSE [initial |-> acc.initial,
              events  |-> IF closes
                          THEN acc.events \o <<Event(pos.Opened, costBasis), Event(closeDate, -costBasis)>>
                          ELSE Append(acc.events, Event(pos.Opened, costBasis))]

\* one iteration of the loop over long positions
ScanPosition(acc, pos, startDate, endDate) ==
    LET posStillActive == pos.Closed = NoDate
        closeDate == pos.Closed
        costBasis == pos.BuyPrice * pos.Shares
        closes == ~posStillActive /\ Before(closeDate, endDate)
    IN  IF ~Before(pos.Opened, endDate) THEN acc
        ELSE IF ~posStillActive /\ Before(closeDate, startDate) THEN acc
        ELSE IF Before(pos.Opened, startDate)
        THEN [initial |-> acc.initial + costBasis,
              events  |-> IF closes THEN Append(acc.events, Event(closeDate, -costBasis))
                          ELSE acc.events]
        ELSE [initial |-> acc.initial,
              events  |-> IF closes
                          THEN acc.events \o <<Event(pos.Opened, costBasis), Event(closeDate, -costBasis)>>
                          ELSE Append(acc.events, Event(pos.Opened, costBasis))]

RECURSIVE ScanOptions(_, _, _, _)
ScanOptions(acc, opts, startDate, endDate) ==
    IF opts = <<>> THEN acc
    ELSE ScanOptions(ScanOption(acc, Head(opts), startDate, endDate), Tail(opts), startDate, endDate)

RECURSIVE ScanPositions(_, _, _, _)
ScanPositions(acc, poss, startDate, endDate) ==
    IF poss = <<>> THEN acc
    ELSE ScanPositions(ScanPosition(acc, Head(poss), startDate, endDate), Tail(poss), startDate, endDate)

\* the two loops: puts first, then long positions
CollectEvents(key, opts, poss) ==
    CHOOSE c \in {ScanPositions(ScanOptions([initial |-> 0, events |-> <<>>], opts, startDate, endDate),
                                poss, startDate, endDate) :
                     startDate \in {MonthStart(key)}, endDate \in {MonthEnd(key)}} : TRUE

\* the less function handed to sort.Slice
EventLess(a, b) == Before(a.date, b.date)

RECURSIVE InsertSorted(_, _)
\* the inner loop of the insertion sort: e moves left while it is less than
\* its left neighbour
InsertSorted(sorted, e) ==
    IF sorted = <<>> THEN <<e>>
    ELSE IF EventLess(e, sorted[Len(sorted)])
    THEN Append(InsertSorted(SubSeq(sorted, 1, Len(sorted) - 1), e), sorted[Len(sorted)])
    ELSE Append(sorted, e)

RECURSIVE SortEvents(_)
\* sort.Slice(events, less) on a slice of at most 12 elements: insertion sort
SortEvents(evs) ==
    IF evs = <<>> THEN <<>>
    ELSE InsertSorted(SortEvents(SubSeq(evs, 1, Len(evs) - 1)), evs[Len(evs)])

\* the arrangements of a sequence
Arrangements(s) == {[i \in 1..Len(s) |-> s[f[i]]] : f \in Permutations(1..Len(s))}

RECURSIVE TieOrders(_)
\* the date-ordered sequences that differ from sorted only in the order of
\* the events of one date
TieOrders(sorted) ==
    IF sorted = <<>> THEN {<<>>}
    ELSE LET n == Cardinality({i \in 1..Len(sorted) : sorted[i].date = sorted[1].date})
         IN  {run \o rest : run \in Arrangements(SubSeq(sorted, 1, n)),
                            rest \in TieOrders(SubSeq(sorted, n + 1, Len(sorted)))}

\* sort.Slice(events, less): the slices it can leave behind.  Up to 12
\* elements are sorted by insertion, which keeps the events of one date in
\* the order of emission; a longer slice is partitioned, and sort.Slice does
\* not promise any order among elements that are not less than each other
SortSlice(evs) ==
    IF Len(evs) <= 12 THEN {SortEvents(evs)} ELSE TieOrders(SortEvents(evs))

\* the sweep keeping the last running total instead of the peak
SweepEvent_KeepsLast(st, e) ==
    [current |-> st.current + e.delta, max |-> st.current + e.delta]

\* one iteration of the sweep: [current, max] after event e
SweepEvent(st, e) ==
    LET cur == st.current + e.delta
    IN  [current |-> cur, max |-> IF cur > st.max THEN cur ELSE st.max]

RECURSIVE Sweep(_, _)
Sweep(st, evs) == IF evs = <<>> THEN st ELSE Sweep(SweepEvent(st, Head(evs)), Tail(evs))

\* the value returned for at most 12 events, where the sort has one outcome
calculateMaxCollateral(key, opts, poss) ==
    LET c == CollectEvents(key, opts, poss)
    IN  Sweep([current |-> c.initial, max |-> c.initial], SortEvents(c.events)).max

-----------------------------------------------------------------------------
(* buildMonthlyData.  A Go map is a function on the set of its keys; the    *)
(* value read at a missing key is the zero value.                           *)

EmptyMap == <<>>

MapGet(m, k) == IF k \in DOMAIN m THEN m[k] ELSE 0

\* m[k] += v
MapAdd(m, k, v) == IF k \in DOMAIN m THEN [m EXCEPT ![k] = @ + v] ELSE m @@ (k :> v)

\* the table block assigning the cell of a known ticker instead of adding to it
TableAdd_Overwrites(tmd, ticker, yearMonth, v) ==
    IF ticker \in DOMAIN tmd
    THEN [tmd EXCEPT ![ticker] = (yearMonth :> v) @@ @]
    ELSE tmd @@ (ticker :> (yearMonth :> v))

\* the "aggregate for table data" block: tickerMonthData[ticker][yearMonth] += v
TableAdd(tmd, ticker, yearMonth, v) ==
    IF ticker \in DOMAIN tmd
    THEN [tmd EXCEPT ![ticker] = MapAdd(@, yearMonth, v)]
    ELSE tmd @@ (ticker :> (yearMonth :> v))

\* the filter without its lower bound
InRange_NoLowerBound(yearMonth, from, to) ==
    ~(to # EmptyStr /\ StrLess(to, yearMonth))

\* the filter with exclusive bounds
InRange_Exclusive(yearMonth, from, to) ==
    /\ ~(from # EmptyStr /\ ~StrLess(from, yearMonth))
    /\ ~(to # EmptyStr /\ ~StrLess(yearMonth, to))

\* the date range filter: TRUE iff the record is not skipped
InRange(yearMonth, from, to) ==
    /\ ~(from # EmptyStr /\ StrLess(yearMonth, from))
    /\ ~(to # EmptyStr /\ StrLess(to, yearMonth))

\* the month set starting with a month in it
EmptyAggregate_SeededMonth ==
    [putsByYearMonth |-> EmptyMap, callsByYearMonth |-> EmptyMap,
     putsByTicker |-> EmptyMap, callsByTicker |-> EmptyMap,
     capGainsByYearMonth |-> EmptyMap, dividendsByYearMonth |-> EmptyMap,
     capGainsByTicker |-> EmptyMap, dividendsByTicker |-> EmptyMap,
     tickerMonthData |-> EmptyMap, yearMonthSet |-> {SprintfYearMonth(2024, 1)}]

\* the maps and the month set as the function creates them
EmptyAggregate ==
    [putsByYearMonth |-> EmptyMap, callsByYearMonth |-> EmptyMap,
     putsByTicker |-> EmptyMap, callsByTicker |-> EmptyMap,
     capGainsByYearMonth |-> EmptyMap, dividendsByYearMonth |-> EmptyMap,
     capGainsByTicker |-> EmptyMap, dividendsByTicker |-> EmptyMap,
     tickerMonthData |-> EmptyMap, yearMonthSet |-> {}]

\* the loop over options taking the month of the close date of a closed option
AggregateOption_ByCloseMonth(agg, option, from, to) ==
    LET totalPremium == CalculateTotalProfit(option)
        date == IF option.Closed = NoDate THEN option.Opened ELSE option.Closed
        yearMonth == SprintfYearMonth(date.y, date.m)
        byType ==
            IF option.Type = "Put"
            THEN [agg EXCEPT !.putsByYearMonth = MapAdd(@, yearMonth, totalPremium),
                             !.putsByTicker = MapAdd(@, option.Symbol, totalPremium)]
            ELSE [agg EXCEPT !.callsByYearMonth = MapAdd(@, yearMonth, totalPremium),
                             !.callsByTicker = MapAdd(@, option.Symbol, totalPremium)]
    IN  IF ~InRange(yearMonth, from, to) THEN agg
        ELSE [byType EXCEPT !.yearMonthSet = @ \cup {yearMonth},
                            !.tickerMonthData = TableAdd(@, option.Symbol, yearMonth, totalPremium)]

\* one iteration of the loop over options
AggregateOption(agg, option, from, to) ==
    LET totalPremium == CalculateTotalProfit(option)
        yearMonth == SprintfYearMonth(option.Opened.y, option.Opened.m)
        byType ==
            IF option.Type = "Put"
            THEN [agg EXCEPT !.putsByYearMonth = MapAdd(@, yearMonth, totalPremium),
                             !.putsByTicker = MapAdd(@, option.Symbol, totalPremium)]
            ELSE IF option.Type = "Call"
            THEN [agg EXCEPT !.callsByYearMonth = MapAdd(@, yearMonth, totalPremium),
                             !.callsByTicker = MapAdd(@, option.Symbol, totalPremium)]
            ELSE agg
    IN  IF ~InRange(yearMonth, from, to) THEN agg
        ELSE [byType EXCEPT !.yearMonthSet = @ \cup {yearMonth},
                            !.tickerMonthData = TableAdd(@, option.Symbol, yearMonth, totalPremium)]

\* the loop over dividends leaving the dividend out of the table data
AggregateDividend_SkipsTable(agg, dividend, from, to) ==
    LET amount == dividend.Amount
        yearMonth == SprintfYearMonth(dividend.Received.y, dividend.Received.m)
    IN  IF ~InRange(yearMonth, from, to) THEN agg
        ELSE [agg EXCEPT !.yearMonthSet = @ \cup {yearMonth},
                         !.dividendsByYearMonth = MapAdd(@, yearMonth, amount),
                         !.dividendsByTicker = MapAdd(@, dividend.Symbol, amount)]

\* one iteration of the loop over dividends
AggregateDividend(agg, dividend, from, to) ==
    LET amount == dividend.Amount
        yearMonth == SprintfYearMonth(dividend.Received.y, dividend.Received.m)
    IN  IF ~InRange(yearMonth, from, to) THEN agg
        ELSE [agg EXCEPT !.yearMonthSet = @ \cup {yearMonth},
                         !.dividendsByYearMonth = MapAdd(@, yearMonth, amount),
                         !.dividendsByTicker = MapAdd(@, dividend.Symbol, amount),
                         !.tickerMonthData = TableAdd(@, dividend.Symbol, yearMonth, amount)]

\* the loop over long positions taking an open position as closed on its open
\* date
AggregatePosition_CountsOpen(agg, position, from, to) ==
    LET closed == IF position.Closed = NoDate THEN position.Opened ELSE position.Closed
        profit == (GetExitPriceValue(position) - position.BuyPrice) * position.Shares
        yearMonth == SprintfYearMonth(closed.y, closed.m)
    IN  IF ~InRange(yearMonth, from, to) THEN agg
        ELSE [agg EXCEPT !.yearMonthSet = @ \cup {yearMonth},
                         !.capGainsByYearMonth = MapAdd(@, yearMonth, profit),
                         !.capGainsByTicker = MapAdd(@, position.Symbol, profit),
                         !.tickerMonthData = TableAdd(@, position.Symbol, yearMonth, profit)]

\* one iteration of the loop over long positions
AggregatePosition(agg, position, from, to) ==
    LET profit == (GetExitPriceValue(position) - position.BuyPrice) * position.Shares
        yearMonth == SprintfYearMonth(position.Closed.y, position.Closed.m)
    IN  IF position.Closed = NoDate THEN agg
        ELSE IF ~InRange(yearMonth, from, to) THEN agg
        ELSE [agg EXCEPT !.yearMonthSet = @ \cup {yearMonth},
                         !.capGainsByYearMonth = MapAdd(@, yearMonth, profit),
                         !.capGainsByTicker = MapAdd(@, position.Symbol, profit),
                         !.tickerMonthData = TableAdd(@, position.Symbol, yearMonth, profit)]

RECURSIVE AggregateOptions(_, _, _, _)
AggregateOptions(agg, opts, from, to) ==
    IF opts = <<>> THEN agg
    ELSE AggregateOptions(AggregateOption(agg, Head(opts), from, to), Tail(opts), from, to)

RECURSIVE AggregateDividends(_, _, _, _)
AggregateDividends(agg, divs, from, to) ==
    IF divs = <<>> THEN agg
    ELSE AggregateDividends(AggregateDividend(agg, Head(divs), from, to), Tail(divs), from, to)

RECURSIVE AggregatePositions(_, _, _, _)
AggregatePositions(agg, poss, from, to) ==
    IF poss = <<>> THEN agg
    ELSE AggregatePositions(AggregatePosition(agg, Head(poss), from, to), Tail(poss), from, to)

\* the three accumulation loops
Aggregate(opts, divs, poss, from, to) ==
    AggregatePositions(
        AggregateDividends(
            AggregateOptions(EmptyAggregate, opts, from, to), divs, from, to),
        poss, from, to)

RECURSIVE SortStrings_Descending(_)
\* the keys of the set in descending order
SortStrings_Descending(S) ==
    IF S = {} THEN <<>>
    ELSE LET greatest == CHOOSE k \in S : \A o \in S : ~StrLess(k, o)
         IN  <<greatest>> \o SortStrings_Descending(S \ {greatest})

RECURSIVE SortStrings(_)
\* the keys of the set in ascending order (sort.Strings)
SortStrings(S) ==
    IF S = {} THEN <<>>
    ELSE LET least == CHOOSE k \in S : \A o \in S : ~StrLess(o, k)
         IN  <<least>> \o SortStrings(S \ {least})

\* a per-month chart: one entry per month of yearMonths
MonthChart(yearMonths, byYearMonth) ==
    [i \in 1..Len(yearMonths) |-> [Month |-> yearMonths[i], Amount |-> MapGet(byYearMonth, yearMonths[i])]]

NonZeroAmount(entry) == entry.Amount # 0

\* a per-ticker chart: the map is ranged over in the order `order`, entries
\* whose amount is 0 are left out
TickerChart(byTicker, order) ==
    SelectSeq([i \in 1..Len(order) |-> [Ticker |-> order[i], Amount |-> byTicker[order[i]]]],
              NonZeroAmount)

MonthLabels ==
    <<"Jan", "Feb", "Mar", "Apr", "May", "Jun", "Jul", "Aug", "Sep", "Oct", "Nov", "Dec">>

\* "2025 Jan": fmt.Sprintf("%d %s", year, monthLabels[month-1]), kept as the
\* pair of its two parts
FormattedLabel(key) ==
    LET p == SscanfYearMonth(key) IN <<Decimal(p.year), MonthLabels[p.month]>>

\* rows kept only for a positive total
NonZeroTotal_PositiveOnly(row) == row.Total > 0

\* rows kept when one of their cells is not zero
NonZeroTotal_AnyCell(row) == \E k \in DOMAIN row.MonthValues : row.MonthValues[k] # 0

\* if total != 0
NonZeroTotal(row) == row.Total # 0

\* the table rows: tickerMonthData is ranged over in the order `order`, a
\* ticker whose total is 0 gets no row
TableRows(tickerMonthData, order) ==
    SelectSeq([i \in 1..Len(order) |->
                  [Ticker |-> order[i],
                   Total |-> SumOver(tickerMonthData[order[i]], DOMAIN tickerMonthData[order[i]]),
                   MonthValues |-> tickerMonthData[order[i]]]],
              NonZeroTotal)

\* totalsByYearMonth: for every month key of some ticker, the sum of the
\* tickers' cells
TableTotals(tickerMonthData) ==
    LET keys == UNION {DOMAIN tickerMonthData[t] : t \in DOMAIN tickerMonthData}
    IN  [k \in keys |->
            SumOver([t \in DOMAIN tickerMonthData |-> MapGet(tickerMonthData[t], k)],
                    DOMAIN tickerMonthData)]

\* grandTotal: the sum of every cell of tickerMonthData
TableGrandTotal(tickerMonthData) ==
    SumOver([t \in DOMAIN tickerMonthData |->
                SumOver(tickerMonthData[t], DOMAIN tickerMonthData[t])],
            DOMAIN tickerMonthData)

\* APR without the guard on the collateral
APR_Unguarded(optionsPremium, maxColl) ==
    FloatMulInt(FloatMulInt(FloatDiv(optionsPremium, maxColl), 12), 100)

\* APR as a monthly, not an annualised, percentage
APR_NotAnnualised(optionsPremium, maxColl) ==
    IF maxColl > 0
    THEN FloatMulInt(FloatDiv(optionsPremium, maxColl), 100)
    ELSE FloatOfInt(0)

\* the APR of a month
APR(optionsPremium, maxColl) ==
    IF maxColl > 0
    THEN FloatMulInt(FloatMulInt(FloatDiv(optionsPremium, maxColl), 12), 100)
    ELSE FloatOfInt(0)

\* the orders in which one call may range over its ticker-keyed maps
IterOrders(agg) ==
    [puts : Orderings(DOMAIN agg.putsByTicker),
     calls : Orderings(DOMAIN agg.callsByTicker),
     capGains : Orderings(DOMAIN agg.capGainsByTicker),
     dividends : Orderings(DOMAIN agg.dividendsByTicker),
     table : Orderings(DOMAIN agg.tickerMonthData)]

\* the peak collateral of every month of yearMonths
Collaterals(yearMonths, opts, poss) ==
    [i \in 1..Len(yearMonths) |-> calculateMaxCollateral(yearMonths[i], opts, poss)]

\* the MonthlyData assembled from the accumulated maps, the sorted months, the
\* months' peak collateral and the map iteration orders
MonthlyResult(syms, index, agg, yearMonths, coll, from, to, iter) ==
    [Symbols |-> syms,
     AllSymbols |-> syms,
     PutsData |-> [ByMonth |-> MonthChart(yearMonths, agg.putsByYearMonth),
                   ByTicker |-> TickerChart(agg.putsByTicker, iter.puts)],
     CallsData |-> [ByMonth |-> MonthChart(yearMonths, agg.callsByYearMonth),
                    ByTicker |-> TickerChart(agg.callsByTicker, iter.calls)],
     CapGainsData |-> [ByMonth |-> MonthChart(yearMonths, agg.capGainsByYearMonth),
                       ByTicker |-> TickerChart(agg.capGainsByTicker, iter.capGains)],
     DividendsData |-> [ByMonth |-> MonthChart(yearMonths, agg.dividendsByYearMonth),
                        ByTicker |-> TickerChart(agg.dividendsByTicker, iter.dividends)],
     TableData |-> TableRows(agg.tickerMonthData, iter.table),
     TableYearMonths |-> yearMonths,
     TableMonthLabels |-> [i \in 1..Len(yearMonths) |-> FormattedLabel(yearMonths[i])],
     TableTotalsByMonth |-> TableTotals(agg.tickerMonthData),
     TotalsByMonth |->
        [i \in 1..Len(yearMonths) |->
            [Month |-> yearMonths[i],
             Amount |-> MapGet(agg.putsByYearMonth, yearMonths[i])
                        + MapGet(agg.callsByYearMonth, yearMonths[i])
                        + MapGet(agg.capGainsByYearMonth, yearMonths[i])
                        + MapGet(agg.dividendsByYearMonth, yearMonths[i])]],
     CollateralByMonth |->
        [i \in 1..Len(yearMonths) |-> [Month |-> yearMonths[i], Amount |-> coll[i]]],
     APRByMonth |->
        [i \in 1..Len(yearMonths) |->
            [Month |-> yearMonths[i],
             Amount |-> APR(MapGet(agg.putsByYearMonth, yearMonths[i])
                            + MapGet(agg.callsByYearMonth, yearMonths[i]), coll[i])]],
     MonthlyPremiumsBySymbol |-> <<>>,
     OptionsIndex |-> index,
     GrandTotal |-> TableGrandTotal(agg.tickerMonthData),
     ActivePage |-> "monthly",
     SelectedFromDate |-> from,
     SelectedToDate |-> to]

\* everything after the accumulation loops: one result per choice of the map
\* iteration orders
ResultsOfMonths(syms, index, agg, yearMonths, opts, poss, from, to) ==
    {MonthlyResult(syms, index, agg, yearMonths, coll, from, to, iter) :
        coll \in {Collaterals(yearMonths, opts, poss)}, iter \in IterOrders(agg)}

ResultsOfAggregate(syms, index, agg, opts, poss, from, to) ==
    UNION {ResultsOfMonths(syms, index, agg, yearMonths, opts, poss, from, to) :
              yearMonths \in {SortStrings(agg.yearMonthSet)}}

\* buildMonthlyData: the results the call may return, which differ only in the
\* order of the sequences built by ranging over a map
buildMonthlyData(syms, opts, divs, poss, index, from, to) ==
    UNION {ResultsOfAggregate(syms, index, agg, opts, poss, from, to) :
              agg \in {Aggregate(opts, divs, poss, from, to)}}

-----------------------------------------------------------------------------
(* monthlyHandler *)

\* the range handed to buildMonthlyData for the query parameters from, to at
\* the time t
HandlerRange(from, to, t) ==
    IF from = EmptyStr \/ to = EmptyStr
    THEN LET elevenMonthsAgo == AddDate(t, 0, -11, 0)
         IN  [from |-> SprintfYearMonth(elevenMonthsAgo.y, elevenMonthsAgo.m),
              to |-> SprintfYearMonth(t.y, t.m)]
    ELSE [from |-> from, to |-> to]

\* the five retrievals of the handler
Sources == {"symbols", "options", "optionsIndex", "dividends", "longPositions"}

\* every retrieval error emptying every source
Retrieved_AllOrNothing(value, empty, source, errs) ==
    IF errs # {} THEN empty ELSE value

\* v, err := service.Get(); if err != nil { v = empty }
Retrieved(value, empty, source, errs) ==
    IF source \in errs THEN empty ELSE value

-----------------------------------------------------------------------------
(* buildSymbolMonthlyResults (internal/web/symbol_handlers.go) *)

months ==
    <<"January", "February", "March", "April", "May", "June",
      "July", "August", "September", "October", "November", "December">>

\* the "initialize all months" loop: monthMap[month] for every month name
InitialMonthMap ==
    [month \in {months[i] : i \in 1..Len(months)} |->
        [Month |-> month, PutsCount |-> 0, CallsCount |-> 0,
         PutsTotal |-> 0, CallsTotal |-> 0, Total |-> 0]]

\* the bucket update leaving out an option that is not a put
ProcessOption_PutsOnly(monthMap, option) ==
    LET monthName == months[option.Opened.m]
        profit == CalculateTotalProfit(option)
    IN  [monthMap EXCEPT ![monthName] =
            IF option.Type = "Put"
            THEN [@ EXCEPT !.PutsCount = @ + 1, !.PutsTotal = @ + profit,
                           !.Total = monthMap[monthName].PutsTotal + profit
                                     + monthMap[monthName].CallsTotal]
            ELSE @]

\* the bucket update assigning the profit instead of adding it
ProcessOption_Assigns(monthMap, option) ==
    LET monthName == months[option.Opened.m]
        profit == CalculateTotalProfit(option)
    IN  [monthMap EXCEPT ![monthName] =
            IF option.Type = "Put"
            THEN [@ EXCEPT !.PutsCount = @ + 1, !.PutsTotal = profit,
                           !.Total = profit + monthMap[monthName].CallsTotal]
            ELSE [@ EXCEPT !.CallsCount = @ + 1, !.CallsTotal = profit,
                           !.Total = monthMap[monthName].PutsTotal + profit]]

\* one iteration of the loop over the options: the bucket is the one of the
\* month of the open date, months[option.Opened.Month()-1]
ProcessOption(monthMap, option) ==
    LET monthName == months[option.Opened.m]
        profit == CalculateTotalProfit(option)
    IN  [monthMap EXCEPT ![monthName] =
            IF option.Type = "Put"
            THEN [@ EXCEPT !.PutsCount = @ + 1, !.PutsTotal = @ + profit,
                           !.Total = monthMap[monthName].PutsTotal + profit
                                     + monthMap[monthName].CallsTotal]
            ELSE [@ EXCEPT !.CallsCount = @ + 1, !.CallsTotal = @ + profit,
                           !.Total = monthMap[monthName].PutsTotal
                                     + monthMap[monthName].CallsTotal + profit]]

RECURSIVE ProcessOptions(_, _)
ProcessOptions(monthMap, opts) ==
    IF opts = <<>> THEN monthMap
    ELSE ProcessOptions(ProcessOption(monthMap, Head(opts)), Tail(opts))

\* the results holding only the months that have an option
buildSymbolMonthlyResults_NonZeroOnly(opts) ==
    SelectSeq([i \in 1..Len(months) |-> ProcessOptions(InitialMonthMap, opts)[months[i]]],
              LAMBDA r : r.PutsCount > 0 \/ r.CallsCount > 0)

\* the map converted to a slice in the order of months
buildSymbolMonthlyResults(opts) ==
    [i \in 1..Len(months) |-> ProcessOptions(InitialMonthMap, opts)[months[i]]]

-----------------------------------------------------------------------------
(* The records and requests the model ranges over *)

Day(y, m, d) == [y |-> y, m |-> m, d |-> d]

Key(y, m) == SprintfYearMonth(y, m)

Symbols == {"AAA", "BBB"}

OptionTypes == {"Put", "Call"}

\* open date, close date and realized profit of the options of Spec
OptionShapes ==
    {[o |-> Day(2023, 12, 10), c |-> NoDate, p |-> 500],
     [o |-> Day(2024, 1, 10), c |-> Day(2024, 1, 25), p |-> 500],
     [o |-> Day(2024, 1, 10), c |-> Day(2024, 2, 5), p |-> -500]}

\* AAA holds every shape, BBB the profitable closed one
OptionRecords ==
    {r \in {[Symbol |-> s, Type |-> t, Opened |-> v.o, Closed |-> v.c,
             Strike |-> 100, Contracts |-> 2, TotalProfit |-> v.p] :
                s \in Symbols, t \in OptionTypes, v \in OptionShapes} :
        r.Symbol = "AAA" \/ (r.Closed # NoDate /\ r.TotalProfit > 0)}

DividendRecords ==
    {[Symbol |-> "AAA", Received |-> Day(2024, 1, 15), Amount |-> 500],
     [Symbol |-> "BBB", Received |-> Day(2024, 2, 15), Amount |-> 500]}

PositionRecords ==
    {[Symbol |-> "AAA", Opened |-> Day(2023, 6, 1), Closed |-> v.c,
      Shares |-> 100, BuyPrice |-> 50, ExitPrice |-> v.x] :
        v \in {[c |-> NoDate, x |-> 0],
               [c |-> Day(2024, 1, 20), x |-> 55],
               [c |-> Day(2024, 2, 20), x |-> 45]}}

\* the month bounds buildMonthlyData is called with
RangeBounds == {EmptyStr, Key(2024, 1)}

\* the dates of the records of SpecCollateral and its target months
SweepDates ==
    {Day(2023, 12, 10), Day(2024, 1, 1), Day(2024, 1, 10), Day(2024, 1, 25), Day(2024, 2, 1)}

SweepMonths == {Key(2023, 12), Key(2024, 1)}

SweepPuts ==
    {[Symbol |-> "AAA", Type |-> "Put", Opened |-> o, Closed |-> c,
      Strike |-> 100, Contracts |-> 2, TotalProfit |-> 500] :
        o \in SweepDates, c \in SweepDates \cup {NoDate}}

\* calls held at the start of the month and opened in it
SweepCalls ==
    {[Symbol |-> "AAA", Type |-> "Call", Opened |-> Day(2023, 12, 10), Closed |-> NoDate,
      Strike |-> 70, Contracts |-> 3, TotalProfit |-> 500],
     [Symbol |-> "AAA", Type |-> "Call", Opened |-> Day(2024, 1, 10), Closed |-> Day(2024, 1, 25),
      Strike |-> 100, Contracts |-> 2, TotalProfit |-> 500]}

SweepOptions == SweepPuts \cup SweepCalls

\* a put of the busy month
BusyPut(o, c) ==
    [Symbol |-> "AAA", Type |-> "Put", Opened |-> o, Closed |-> c,
     Strike |-> 100, Contracts |-> 2, TotalProfit |-> 500]

\* two months of seven puts, more than an insertion-sorted slice has events
\* for: [day opened, day closed] of 2024-01, one put opened and closed on the
\* same day
BusyDays ==
    {<< <<13, 25>>, <<20, 21>>, <<11, 24>>, <<3, 9>>, <<10, 10>>, <<18, 27>>, <<16, 23>> >>,
     << <<8, 13>>, <<5, 11>>, <<20, 24>>, <<4, 16>>, <<9, 9>>, <<3, 14>>, <<6, 7>> >>}

BusyOptions ==
    {[i \in 1..Len(days) |-> BusyPut(Day(2024, 1, days[i][1]), Day(2024, 1, days[i][2]))] :
        days \in BusyDays}

SweepPositions ==
    {[Symbol |-> "AAA", Opened |-> o, Closed |-> c,
      Shares |-> 100, BuyPrice |-> b, ExitPrice |-> 0] :
        o \in {Day(2023, 12, 10), Day(2024, 1, 10)},
        c \in {NoDate, Day(2024, 1, 10), Day(2024, 1, 25)},
        b \in {50, -50}}
    \cup {[Symbol |-> "AAA", Opened |-> Day(2023, 6, 1), Closed |-> NoDate,
            Shares |-> 100, BuyPrice |-> 50, ExitPrice |-> 0]}

\* no request of the symbol API is being served
NoRequest == <<>>
NoResponse == 0
NoRows == <<>>

\* the clock and the records of SpecHandler
ClockYears == {2024, 2025}

\* the first day and the last days of every month of the clock years
ClockDays ==
    {t \in {Day(y, m, d) : y \in ClockYears, m \in 1..12, d \in {1, 29, 30, 31}} :
        t.d <= DaysIn(t.y, t.m)}

QueryBounds == {EmptyStr, Key(2024, 1)}

HandlerOptions ==
    {[Symbol |-> "AAA", Type |-> "Put", Opened |-> Day(2024, 1, 10), Closed |-> Day(2024, 1, 25),
      Strike |-> 100, Contracts |-> 2, TotalProfit |-> 500]}

HandlerDividends == {[Symbol |-> "BBB", Received |-> Day(2023, 12, 15), Amount |-> 500]}

HandlerPositions ==
    {[Symbol |-> "AAA", Opened |-> Day(2023, 6, 1), Closed |-> NoDate,
      Shares |-> 100, BuyPrice |-> 50, ExitPrice |-> 0]}

NoData == <<>>

\* the concurrent calls and the records they share
Invocations == {"first", "second"}

SharedOptions ==
    {[Symbol |-> "AAA", Type |-> v.t, Opened |-> Day(2024, 1, 10), Closed |-> Day(2024, 1, 25),
      Strike |-> 100, Contracts |-> 2, TotalProfit |-> v.p] :
        v \in {[t |-> "Put", p |-> 500], [t |-> "Call", p |-> -500]}}

SharedDividends == {[Symbol |-> "BBB", Received |-> Day(2024, 2, 15), Amount |-> 500]}

SharedPositions ==
    {[Symbol |-> "AAA", Opened |-> Day(2023, 6, 1), Closed |-> Day(2024, 1, 20),
      Shares |-> 100, BuyPrice |-> 50, ExitPrice |-> 55]}

\* the options of one symbol: the same calendar month in two years, the two
\* months at the ends of the year, gains and losses
SymbolOptions ==
    {[Symbol |-> "AAA", Type |-> t, Opened |-> o, Closed |-> NoDate,
      Strike |-> 100, Contracts |-> 2, TotalProfit |-> p] :
        t \in OptionTypes,
        o \in {Day(2023, 3, 5), Day(2024, 3, 20), Day(2024, 1, 1), Day(2024, 12, 31)},
        p \in {500, -200}}

\* the symbols and the options index the services return; buildMonthlyData
\* passes both through to the page
DistinctSymbols == <<"AAA", "BBB">>

IndexedOptions == [symbols |-> DistinctSymbols]

-----------------------------------------------------------------------------
(* Spec: buildMonthlyData applied to any records and any range *)

Init ==
    /\ options \in SeqsUpTo(OptionRecords, MaxRecords)
    /\ dividends \in SeqsUpTo(DividendRecords, MaxRecords - Len(options))
    /\ longPositions \in SeqsUpTo(PositionRecords, MaxRecords - Len(options) - Len(dividends))
    /\ now = NoDate
    /\ query = [from |-> EmptyStr, to |-> EmptyStr]
    /\ pc = "start"
    /\ fromMonth = EmptyStr
    /\ toMonth = EmptyStr
    /\ data = NoData
    /\ ym = EmptyStr
    /\ events = <<>>
    /\ initialCollateral = 0
    /\ current = 0
    /\ maxCollateral = 0
    /\ swept = 0
    /\ symbols = DistinctSymbols
    /\ optionsIndex = IndexedOptions
    /\ failed = {}
    /\ results = <<>>
    /\ invocations = <<>>
    /\ request = NoRequest
    /\ response = NoResponse
    /\ symbolTable = NoRows
    /\ calls = <<>>

BuildMonthlyData ==
    /\ pc = "start"
    /\ \E from \in RangeBounds, to \in RangeBounds :
          /\ data' \in buildMonthlyData(symbols, options, dividends, longPositions,
                                         optionsIndex, from, to)
          /\ fromMonth' = from
          /\ toMonth' = to
    /\ pc' = "done"
    /\ UNCHANGED requestVars
    /\ UNCHANGED <<options, dividends, longPositions, now, query, ym, events,
                   initialCollateral, current, maxCollateral, swept, symbols, optionsIndex,
                   failed, results, invocations>>

Next == BuildMonthlyData

Spec == Init /\ [][Next]_vars

-----------------------------------------------------------------------------
(* SpecCollateral: calculateMaxCollateral, one sweep iteration per step *)

InitCollateral ==
    /\ options \in SeqsUpTo(SweepOptions, MaxSweepRecords) \cup BusyOptions
    /\ longPositions \in SeqsUpTo(SweepPositions, IF options \in BusyOptions THEN 0
                                                  ELSE MaxSweepRecords - Len(options))
    /\ ym \in SweepMonths
    /\ dividends = <<>>
    /\ now = NoDate
    /\ query = [from |-> EmptyStr, to |-> EmptyStr]
    /\ pc = "start"
    /\ fromMonth = EmptyStr
    /\ toMonth = EmptyStr
    /\ data = NoData
    /\ events = <<>>
    /\ initialCollateral = 0
    /\ current = 0
    /\ maxCollateral = 0
    /\ swept = 0
    /\ symbols = DistinctSymbols
    /\ optionsIndex = IndexedOptions
    /\ failed = {}
    /\ results = <<>>
    /\ invocations = <<>>
    /\ request = NoRequest
    /\ response = NoResponse
    /\ symbolTable = NoRows
    /\ calls = <<>>

\* the two loops over the records, the sort, and the start of the sweep
CollectAndSort ==
    /\ pc = "start"
    /\ LET c == CollectEvents(ym, options, longPositions)
       IN  /\ events' \in SortSlice(c.events)
           /\ initialCollateral' = c.initial
           /\ current' = c.initial
           /\ maxCollateral' = c.initial
    /\ swept' = 0
    /\ pc' = "sweep"
    /\ UNCHANGED requestVars
    /\ UNCHANGED <<options, dividends, longPositions, now, query, fromMonth, toMonth, data,
                   ym, symbols, optionsIndex, failed, results, invocations>>

\* one iteration of the loop over the sorted events
SweepStep ==
    /\ pc = "sweep"
    /\ swept < Len(events)
    /\ LET st == SweepEvent([current |-> current, max |-> maxCollateral], events[swept + 1])
       IN  /\ current' = st.current
           /\ maxCollateral' = st.max
    /\ swept' = swept + 1
    /\ UNCHANGED requestVars
    /\ UNCHANGED <<options, dividends, longPositions, now, query, pc, fromMonth, toMonth,
                   data, ym, events, initialCollateral, symbols, optionsIndex, failed,
                   results, invocations>>

\* return maxCollateral
ReturnMaxCollateral ==
    /\ pc = "sweep"
    /\ swept = Len(events)
    /\ pc' = "done"
    /\ UNCHANGED requestVars
    /\ UNCHANGED <<options, dividends, longPositions, now, query, fromMonth, toMonth, data,
                   ym, events, initialCollateral, current, maxCollateral, swept, symbols,
                   optionsIndex, failed, results, invocations>>

NextCollateral == CollectAndSort \/ SweepStep \/ ReturnMaxCollateral

SpecCollateral == InitCollateral /\ [][NextCollateral]_vars

-----------------------------------------------------------------------------
(* SpecHandler: one request to /monthly *)

InitHandler ==
    /\ options \in SeqsUpTo(HandlerOptions, MaxHandlerRecords)
    /\ dividends \in SeqsUpTo(HandlerDividends, MaxHandlerRecords)
    /\ longPositions \in SeqsUpTo(HandlerPositions, MaxHandlerRecords)
    /\ now \in ClockDays
    /\ query = [from |-> EmptyStr, to |-> EmptyStr]
    /\ pc = "start"
    /\ fromMonth = EmptyStr
    /\ toMonth = EmptyStr
    /\ data = NoData
    /\ ym = EmptyStr
    /\ events = <<>>
    /\ initialCollateral = 0
    /\ current = 0
    /\ maxCollateral = 0
    /\ swept = 0
    /\ symbols = DistinctSymbols
    /\ optionsIndex = IndexedOptions
    /\ failed = {}
    /\ results = <<>>
    /\ invocations = <<>>
    /\ request = NoRequest
    /\ response = NoResponse
    /\ symbolTable = NoRows
    /\ calls = <<>>

MonthlyHandler ==
    /\ pc = "start"
    /\ \E from \in QueryBounds, to \in QueryBounds, errs \in SUBSET Sources :
          \E range \in {HandlerRange(from, to, now)} :
             /\ query' = [from |-> from, to |-> to]
             /\ fromMonth' = range.from
             /\ toMonth' = range.to
             /\ failed' = errs
             /\ data' \in buildMonthlyData(Retrieved(symbols, <<>>, "symbols", errs),
                                            Retrieved(options, <<>>, "options", errs),
                                            Retrieved(dividends, <<>>, "dividends", errs),
                                            Retrieved(longPositions, <<>>, "longPositions", errs),
                                            Retrieved(optionsIndex, EmptyMap, "optionsIndex", errs),
                                            range.from, range.to)
    /\ pc' = "done"
    /\ UNCHANGED requestVars
    /\ UNCHANGED <<symbols, options, optionsIndex, dividends, longPositions, now, ym, events,
                   initialCollateral, current, maxCollateral, swept, results, invocations>>

NextHandler == MonthlyHandler

SpecHandler == InitHandler /\ [][NextHandler]_vars

-----------------------------------------------------------------------------
(* SpecSymbol: buildSymbolMonthlyResults applied to the options of a symbol *)

InitSymbol ==
    /\ options \in SeqsUpTo(SymbolOptions, MaxSymbolOptions)
    /\ dividends = <<>>
    /\ longPositions = <<>>
    /\ now = NoDate
    /\ query = [from |-> EmptyStr, to |-> EmptyStr]
    /\ pc = "start"
    /\ fromMonth = EmptyStr
    /\ toMonth = EmptyStr
    /\ data = NoData
    /\ ym = EmptyStr
    /\ events = <<>>
    /\ initialCollateral = 0
    /\ current = 0
    /\ maxCollateral = 0
    /\ swept = 0
    /\ symbols = DistinctSymbols
    /\ optionsIndex = IndexedOptions
    /\ failed = {}
    /\ results = <<>>
    /\ invocations = <<>>
    /\ request = NoRequest
    /\ response = NoResponse
    /\ symbolTable = NoRows
    /\ calls = <<>>

BuildSymbolMonthlyResults ==
    /\ pc = "start"
    /\ results' = buildSymbolMonthlyResults(options)
    /\ pc' = "done"
    /\ UNCHANGED requestVars
    /\ UNCHANGED <<symbols, options, optionsIndex, dividends, longPositions, now, query,
                   fromMonth, toMonth, data, ym, events, initialCollateral, current,
                   maxCollateral, swept, failed, invocations>>

NextSymbol == BuildSymbolMonthlyResults

SpecSymbol == InitSymbol /\ [][NextSymbol]_vars

-----------------------------------------------------------------------------
(* SpecConcurrent: two calls of buildMonthlyData on the same slices, one loop *)
(* iteration per step.  invocations.frames[p] holds the position, the range *)
(* and the result of the call p; invocations.maps[m] the maps created by    *)
(* the make(...) statements at the head of the function.                    *)

\* the maps being the same for every call
MapsOf_Shared(p) == "first"

\* the maps a call accumulates into: the ones it created itself
MapsOf(p) == p

InitConcurrent ==
    /\ options \in SeqsUpTo(SharedOptions, MaxSharedRecords)
    /\ dividends \in SeqsUpTo(SharedDividends, MaxSharedRecords - Len(options))
    /\ longPositions \in SeqsUpTo(SharedPositions, MaxSharedRecords - Len(options) - Len(dividends))
    /\ invocations =
          [frames |-> [p \in Invocations |->
                          [pc |-> "idle", from |-> EmptyStr, to |-> EmptyStr, k |-> 0,
                           result |-> NoData]],
           maps |-> [p \in Invocations |-> EmptyAggregate]]
    /\ now = NoDate
    /\ query = [from |-> EmptyStr, to |-> EmptyStr]
    /\ pc = "start"
    /\ fromMonth = EmptyStr
    /\ toMonth = EmptyStr
    /\ data = NoData
    /\ ym = EmptyStr
    /\ events = <<>>
    /\ initialCollateral = 0
    /\ current = 0
    /\ maxCollateral = 0
    /\ swept = 0
    /\ symbols = DistinctSymbols
    /\ optionsIndex = IndexedOptions
    /\ failed = {}
    /\ results = <<>>
    /\ request = NoRequest
    /\ response = NoResponse
    /\ symbolTable = NoRows
    /\ calls = <<>>

\* the call p is made with a range; it creates its empty maps
Call(p) ==
    /\ invocations.frames[p].pc = "idle"
    /\ \E from \in RangeBounds, to \in RangeBounds :
          invocations' =
             [invocations EXCEPT
                 !.frames[p] = [@ EXCEPT !.pc = "loops", !.from = from, !.to = to],
                 !.maps[MapsOf(p)] = EmptyAggregate]
    /\ UNCHANGED requestVars
    /\ UNCHANGED <<symbols, options, optionsIndex, dividends, longPositions, now, query, pc,
                   fromMonth, toMonth, data, ym, events, initialCollateral, current,
                   maxCollateral, swept, failed, results>>

\* one iteration of the loop over options
LoopOption(p) ==
    /\ invocations.frames[p].pc = "loops"
    /\ invocations.frames[p].k < Len(options)
    /\ invocations' =
          [invocations EXCEPT
              !.frames[p].k = @ + 1,
              !.maps[MapsOf(p)] =
                  AggregateOption(@, options[invocations.frames[p].k + 1],
                                  invocations.frames[p].from, invocations.frames[p].to)]
    /\ UNCHANGED requestVars
    /\ UNCHANGED <<symbols, options, optionsIndex, dividends, longPositions, now, query, pc,
                   fromMonth, toMonth, data, ym, events, initialCollateral, current,
                   maxCollateral, swept, failed, results>>

\* one iteration of the loop over dividends
LoopDividend(p) ==
    /\ invocations.frames[p].pc = "loops"
    /\ invocations.frames[p].k >= Len(options)
    /\ invocations.frames[p].k < Len(options) + Len(dividends)
    /\ invocations' =
          [invocations EXCEPT
              !.frames[p].k = @ + 1,
              !.maps[MapsOf(p)] =
                  AggregateDividend(@, dividends[invocations.frames[p].k - Len(options) + 1],
                                    invocations.frames[p].from, invocations.frames[p].to)]
    /\ UNCHANGED requestVars
    /\ UNCHANGED <<symbols, options, optionsIndex, dividends, longPositions, now, query, pc,
                   fromMonth, toMonth, data, ym, events, initialCollateral, current,
                   maxCollateral, swept, failed, results>>

\* one iteration of the loop over long positions
LoopPosition(p) ==
    /\ invocations.frames[p].pc = "loops"
    /\ invocations.frames[p].k >= Len(options) + Len(dividends)
    /\ invocations.frames[p].k < Len(options) + Len(dividends) + Len(longPositions)
    /\ invocations' =
          [invocations EXCEPT
              !.frames[p].k = @ + 1,
              !.maps[MapsOf(p)] =
                  AggregatePosition(@, longPositions[invocations.frames[p].k - Len(options)
                                                      - Len(dividends) + 1],
                                    invocations.frames[p].from, invocations.frames[p].to)]
    /\ UNCHANGED requestVars
    /\ UNCHANGED <<symbols, options, optionsIndex, dividends, longPositions, now, query, pc,
                   fromMonth, toMonth, data, ym, events, initialCollateral, current,
                   maxCollateral, swept, failed, results>>

\* the rest of the function: the result is built from the maps and returned
Return(p) ==
    /\ invocations.frames[p].pc = "loops"
    /\ invocations.frames[p].k = Len(options) + Len(dividends) + Len(longPositions)
    /\ \E agg \in {invocations.maps[MapsOf(p)]} :
          \E d \in ResultsOfAggregate(symbols, optionsIndex, agg, options, longPositions,
                                      invocations.frames[p].from, invocations.frames[p].to) :
             invocations' = [invocations EXCEPT !.frames[p] = [@ EXCEPT !.pc = "done", !.result = d]]
    /\ UNCHANGED requestVars
    /\ UNCHANGED <<symbols, options, optionsIndex, dividends, longPositions, now, query, pc,
                   fromMonth, toMonth, data, ym, events, initialCollateral, current,
                   maxCollateral, swept, failed, results>>

NextConcurrent ==
    \E p \in Invocations :
        Call(p) \/ LoopOption(p) \/ LoopDividend(p) \/ LoopPosition(p) \/ Return(p)

SpecConcurrent == InitConcurrent /\ [][NextConcurrent]_vars

-----------------------------------------------------------------------------
(* The symbol API.  A nil pointer is the empty sequence, a pointer to v is   *)
(* <<v>>; a nil *time.Time is NoDate.                                        *)

Nil == <<>>
Ptr(v) == <<v>>

StatusOK == 200
StatusBadRequest == 400
StatusMethodNotAllowed == 405
StatusInternalServerError == 500

\* a call of a service method with its arguments
ServiceCall(service, method, args) == [service |-> service, method |-> method, args |-> args]

\* the records of opts, divs or poss that are not of the symbol
WithoutSymbol(recs, symbol) == SelectSeq(recs, LAMBDA r : r.Symbol # symbol)

\* the row of a symbol: price, dividend, ex-dividend date, P/E ratio
SymbolRow(price, dividend, exDividendDate, peRatio) ==
    [Price |-> price, Dividend |-> dividend, ExDividendDate |-> exDividendDate,
     PERatio |-> peRatio]

\* the row symbolService.Create inserts: the defaults of the table
CreatedRow == SymbolRow(0, 0, NoDate, Nil)

-----------------------------------------------------------------------------
(* SpecDelete: deleteSymbolHandler, one service call per step *)

\* the steps of deleteSymbolHandler in the order of its code
DeleteSteps == <<"dividends", "longPositions", "options", "symbol">>

\* the handler after a step that goes on whether or not the call failed
AfterDelete_IgnoresError(step, err) ==
    IF step = "symbol" THEN "done"
    ELSE DeleteSteps[(CHOOSE i \in 1..Len(DeleteSteps) : DeleteSteps[i] = step) + 1]

\* where the handler is after a step: it returns when the call failed, and
\* after the last step
AfterDelete(step, err) ==
    IF err \/ step = "symbol" THEN "done"
    ELSE DeleteSteps[(CHOOSE i \in 1..Len(DeleteSteps) : DeleteSteps[i] = step) + 1]

\* the symbols with a row, and the rows
DeleteTables ==
    {("AAA" :> SymbolRow(150, 2, NoDate, Nil)) @@ ("BBB" :> SymbolRow(80, 0, NoDate, Nil)),
     ("AAA" :> SymbolRow(150, 2, NoDate, Nil))}

InitDelete ==
    /\ request \in {[method |-> "DELETE", symbol |-> sym] : sym \in Symbols}
    /\ symbolTable \in DeleteTables
    /\ options \in SeqsUpTo(OptionRecords, MaxDeletedRecords)
    /\ dividends \in SeqsUpTo(DividendRecords, MaxDeletedRecords)
    /\ longPositions \in SeqsUpTo(PositionRecords, MaxDeletedRecords)
    /\ response = NoResponse
    /\ calls = <<>>
    /\ failed = {}
    /\ pc = "dividends"
    /\ now = NoDate
    /\ query = [from |-> EmptyStr, to |-> EmptyStr]
    /\ fromMonth = EmptyStr
    /\ toMonth = EmptyStr
    /\ data = NoData
    /\ ym = EmptyStr
    /\ events = <<>>
    /\ initialCollateral = 0
    /\ current = 0
    /\ maxCollateral = 0
    /\ swept = 0
    /\ symbols = DistinctSymbols
    /\ optionsIndex = IndexedOptions
    /\ results = <<>>
    /\ invocations = <<>>

\* what every step does besides its own deletion: the call is made, and it
\* fails or not; a failure is answered with 500, the last success with 200
DeleteStep(step, method, err) ==
    /\ pc = step
    /\ calls' = Append(calls, ServiceCall(step, method, <<request.symbol>>))
    /\ failed' = IF err THEN failed \cup {step} ELSE failed
    /\ response' = IF err THEN StatusInternalServerError
                   ELSE IF step = "symbol" THEN StatusOK ELSE response
    /\ pc' = AfterDelete(step, err)
    /\ UNCHANGED <<request, now, query, fromMonth, toMonth, data, ym, events,
                   initialCollateral, current, maxCollateral, swept, symbols, optionsIndex,
                   results, invocations>>

\* s.dividendService.DeleteBySymbol(symbol)
DeleteDividends ==
    \E err \in BOOLEAN :
        /\ DeleteStep("dividends", "DeleteBySymbol", err)
        /\ dividends' = IF err THEN dividends ELSE WithoutSymbol(dividends, request.symbol)
        /\ UNCHANGED <<longPositions, options, symbolTable>>

\* s.longPositionService.DeleteBySymbol(symbol)
DeleteLongPositions ==
    \E err \in BOOLEAN :
        /\ DeleteStep("longPositions", "DeleteBySymbol", err)
        /\ longPositions' = IF err THEN longPositions
                            ELSE WithoutSymbol(longPositions, request.symbol)
        /\ UNCHANGED <<dividends, options, symbolTable>>

\* s.optionService.DeleteBySymbol(symbol)
DeleteOptions ==
    \E err \in BOOLEAN :
        /\ DeleteStep("options", "DeleteBySymbol", err)
        /\ options' = IF err THEN options ELSE WithoutSymbol(options, request.symbol)
        /\ UNCHANGED <<dividends, longPositions, symbolTable>>

\* s.symbolService.Delete(symbol)
DeleteSymbol ==
    \E err \in BOOLEAN :
        /\ DeleteStep("symbol", "Delete", err)
        /\ symbolTable' = IF err THEN symbolTable
                          ELSE [sym \in DOMAIN symbolTable \ {request.symbol} |-> symbolTable[sym]]
        /\ UNCHANGED <<dividends, longPositions, options>>

NextDelete == DeleteDividends \/ DeleteLongPositions \/ DeleteOptions \/ DeleteSymbol

SpecDelete == InitDelete /\ [][NextDelete]_vars

-----------------------------------------------------------------------------
(* Properties of buildMonthlyData (Spec) *)

Done == pc = "done"

Months == 1..Len(data.TableYearMonths)

\* puts total + calls total of the i-th month of the result
PremiumOfMonth(i) == data.PutsData.ByMonth[i].Amount + data.CallsData.ByMonth[i].Amount

\* C1: a month whose peak collateral (calculateMaxCollateral) is 0 has an APR
\* of exactly 0 whatever its put and call totals are, and every APR entry is a
\* finite number, never the outcome of a division by zero.
C1_ZeroCollateralZeroAPR ==
    Done =>
        \A i \in Months :
            /\ IsFinite(data.APRByMonth[i].Amount)
            /\ calculateMaxCollateral(data.TableYearMonths[i], options, longPositions) = 0
                  => data.APRByMonth[i].Amount = FloatOfInt(0)

\* a month with call income only, no collateral, and an APR of 0
C1_Witness ==
    /\ Done
    /\ \E i \in Months :
          /\ data.CollateralByMonth[i].Amount = 0
          /\ data.PutsData.ByMonth[i].Amount = 0
          /\ data.CallsData.ByMonth[i].Amount # 0
          /\ data.APRByMonth[i].Amount = FloatOfInt(0)

\* C2: a month whose peak collateral is greater than 0 has the APR
\* (puts total + calls total) / peak collateral * 12 * 100; a premium of 500 on
\* a peak collateral of 20000 gives an APR of 30.
C2_APRFormula ==
    Done =>
        \A i \in Months :
            LET coll == data.CollateralByMonth[i].Amount
            IN  /\ coll > 0 => data.APRByMonth[i].Amount = Frac(PremiumOfMonth(i) * 12 * 100, coll)
                /\ (coll = 20000 /\ PremiumOfMonth(i) = 500)
                      => data.APRByMonth[i].Amount = FloatOfInt(30)

\* the put of the scenario alone: 500 of profit, strike 100, 2 contracts
C2_Witness ==
    /\ Done
    /\ Len(options) = 1 /\ dividends = <<>> /\ longPositions = <<>>
    /\ options[1].Type = "Put" /\ options[1].TotalProfit = 500
    /\ options[1].Opened = Day(2024, 1, 10) /\ options[1].Closed = Day(2024, 1, 25)
    /\ data.CollateralByMonth = <<[Month |-> Key(2024, 1), Amount |-> 20000]>>
    /\ data.APRByMonth = <<[Month |-> Key(2024, 1), Amount |-> FloatOfInt(30)]>>

\* the ticker x month matrix the call accumulated, dropped rows included
Matrix == Aggregate(options, dividends, longPositions, fromMonth, toMonth).tickerMonthData

\* the sum of the month's cells over the rows emitted in TableData
EmittedColumnSum(key) ==
    SumSeq([r \in 1..Len(data.TableData) |-> MapGet(data.TableData[r].MonthValues, key)])

\* the sum of the month's cells over every row of the matrix
MatrixColumnSum(matrix, key) ==
    SumOver([t \in DOMAIN matrix |-> MapGet(matrix[t], key)], DOMAIN matrix)

\* the tickers of the matrix that have no row in TableData
DroppedTickers(matrix) ==
    {t \in DOMAIN matrix : \A r \in 1..Len(data.TableData) : data.TableData[r].Ticker # t}

\* C5 as stated: for every month of TableYearMonths, the sum of the month's
\* column over the emitted rows of TableData equals the month's combined total
\* in TotalsByMonth.
C5_EmittedColumnSums ==
    Done => \A i \in Months : EmittedColumnSum(data.TableYearMonths[i]) = data.TotalsByMonth[i].Amount

\* C5 amended: for every month of TableYearMonths, the sum of the month's
\* column over all rows of the matrix, the rows dropped from TableData for a
\* zero total included, equals the month's combined total in TotalsByMonth; it
\* is the month's entry of TableTotalsByMonth.
C5_MatrixColumnSums ==
    Done =>
        \A matrix \in {Matrix} : \A i \in Months :
            /\ MatrixColumnSum(matrix, data.TableYearMonths[i]) = data.TotalsByMonth[i].Amount
            /\ data.TableTotalsByMonth[data.TableYearMonths[i]] = data.TotalsByMonth[i].Amount

\* a ticker that cancels out over two months is dropped; its cells still count
\* in the totals of both months
C5_Witness ==
    /\ Done
    /\ \E matrix \in {Matrix} : \E t \in DroppedTickers(matrix) : \E i \in Months :
          /\ MapGet(matrix[t], data.TableYearMonths[i]) # 0
          /\ data.TotalsByMonth[i].Amount # EmittedColumnSum(data.TableYearMonths[i])
          /\ data.TotalsByMonth[i].Amount = MatrixColumnSum(matrix, data.TableYearMonths[i])

\* C6: GrandTotal equals the sum of every cell of the rows emitted in
\* TableData: the rows dropped for a zero total do not change the sum.
C6_GrandTotalIsSumOfEmittedCells ==
    Done =>
        data.GrandTotal =
            SumSeq([r \in 1..Len(data.TableData) |->
                       SumOver(data.TableData[r].MonthValues, DOMAIN data.TableData[r].MonthValues)])

\* a row with non-zero cells is dropped, another row is emitted
C6_Witness ==
    /\ Done
    /\ data.TableData # <<>>
    /\ data.GrandTotal # 0
    /\ \E matrix \in {Matrix} : \E t \in DroppedTickers(matrix) :
          \E k \in DOMAIN matrix[t] : matrix[t][k] # 0

-----------------------------------------------------------------------------
(* The range filter of buildMonthlyData (Spec) *)

LexLeq(a, b) == a = b \/ StrLess(a, b)

\* the key lies in [fromMonth, toMonth]; an empty bound is no bound
KeyInWindow(key) ==
    /\ fromMonth = EmptyStr \/ LexLeq(fromMonth, key)
    /\ toMonth = EmptyStr \/ LexLeq(key, toMonth)

\* the key is strictly outside [fromMonth, toMonth]
KeyOutsideWindow(key) ==
    \/ fromMonth # EmptyStr /\ StrLess(key, fromMonth)
    \/ toMonth # EmptyStr /\ StrLess(toMonth, key)

OptionKey(o) == Key(o.Opened.y, o.Opened.m)
DividendKey(d) == Key(d.Received.y, d.Received.m)
PositionKey(p) == Key(p.Closed.y, p.Closed.m)

\* the records that have a month key, as [key, amount]
KeyedRecords ==
    [i \in 1..Len(options) |-> [key |-> OptionKey(options[i]), amount |-> options[i].TotalProfit]]
    \o [i \in 1..Len(dividends) |-> [key |-> DividendKey(dividends[i]), amount |-> dividends[i].Amount]]
    \o SelectSeq([i \in 1..Len(longPositions) |->
                     [key |-> IF longPositions[i].Closed = NoDate THEN EmptyStr
                              ELSE PositionKey(longPositions[i]),
                      amount |-> (longPositions[i].ExitPrice - longPositions[i].BuyPrice)
                                 * longPositions[i].Shares]],
                 LAMBDA r : r.key # EmptyStr)

ResultMonths == {data.TableYearMonths[i] : i \in Months}

\* the result with its map-ordered sequences taken as sets; the aggregation
\* series only, then all series
AggregationSeries(d) ==
    [months |-> d.TableYearMonths,
     puts |-> d.PutsData.ByMonth, calls |-> d.CallsData.ByMonth,
     capGains |-> d.CapGainsData.ByMonth, dividends |-> d.DividendsData.ByMonth,
     putsByTicker |-> {d.PutsData.ByTicker[i] : i \in DOMAIN d.PutsData.ByTicker},
     callsByTicker |-> {d.CallsData.ByTicker[i] : i \in DOMAIN d.CallsData.ByTicker},
     capGainsByTicker |-> {d.CapGainsData.ByTicker[i] : i \in DOMAIN d.CapGainsData.ByTicker},
     dividendsByTicker |-> {d.DividendsData.ByTicker[i] : i \in DOMAIN d.DividendsData.ByTicker},
     table |-> {d.TableData[i] : i \in DOMAIN d.TableData},
     tableTotals |-> d.TableTotalsByMonth,
     totals |-> d.TotalsByMonth,
     grandTotal |-> d.GrandTotal]

AllSeries(d) ==
    [aggregation |-> AggregationSeries(d),
     collateral |-> d.CollateralByMonth,
     apr |-> d.APRByMonth]

\* a result of the same call on other records
ResultOn(opts, divs, poss) ==
    CHOOSE d \in buildMonthlyData(symbols, opts, divs, poss, optionsIndex, fromMonth, toMonth) : TRUE

\* the results of the call with one out-of-range record taken out of the input
ResultsWithoutOneOutsideRecord ==
    {ResultOn(RemoveAt(options, i), dividends, longPositions) :
        i \in {j \in 1..Len(options) : KeyOutsideWindow(OptionKey(options[j]))}}
    \cup
    {ResultOn(options, RemoveAt(dividends, i), longPositions) :
        i \in {j \in 1..Len(dividends) : KeyOutsideWindow(DividendKey(dividends[j]))}}
    \cup
    {ResultOn(options, dividends, RemoveAt(longPositions, i)) :
        i \in {j \in 1..Len(longPositions) :
                  /\ longPositions[j].Closed # NoDate
                  /\ KeyOutsideWindow(PositionKey(longPositions[j]))}}

\* C7 as stated: a record whose month key is strictly outside
\* [fromMonth, toMonth] contributes to no output series: every series, the
\* collateral and APR series included, is the same as if the record were absent.
C7_OutsideRecordChangesNothing ==
    Done => \A all \in {AllSeries(data)} : \A d \in ResultsWithoutOneOutsideRecord : AllSeries(d) = all

\* C7 amended: a record whose month key is strictly outside
\* [fromMonth, toMonth] contributes to no aggregation series: the month list,
\* the per-month category series, the per-ticker series, the ticker x month
\* matrix, the combined totals and the grand total are the same as if the
\* record were absent (the collateral and APR series are computed from the
\* unfiltered records and may differ).
C7_OutsideRecordNotAggregated ==
    Done =>
        \A series \in {AggregationSeries(data)} :
            \A d \in ResultsWithoutOneOutsideRecord : AggregationSeries(d) = series

\* taking an out-of-range record out changes the collateral of a month of the
\* result and nothing of the aggregation
C7_Witness ==
    /\ Done
    /\ data.TableYearMonths # <<>>
    /\ \E d \in ResultsWithoutOneOutsideRecord :
          /\ d.CollateralByMonth # data.CollateralByMonth
          /\ AggregationSeries(d) = AggregationSeries(data)

\* C8: a record is aggregated iff fromMonth <= key <= toMonth in the
\* lexicographic order of the keys, an empty bound being no bound: the months
\* of the result are the keys in the window, and the grand total is the sum of
\* the amounts of the records whose key is in the window.
C8_AggregatedIffInWindow ==
    Done =>
        \A recs \in {KeyedRecords} :
            /\ \A i \in 1..Len(recs) : recs[i].key \in ResultMonths <=> KeyInWindow(recs[i].key)
            /\ data.GrandTotal =
                  SumSeq([i \in 1..Len(recs) |-> IF KeyInWindow(recs[i].key) THEN recs[i].amount ELSE 0])

\* a lower bound only: a record of the bound's month is in, an earlier one out
C8_Witness ==
    /\ Done
    /\ fromMonth = Key(2024, 1) /\ toMonth = EmptyStr
    /\ \E recs \in {KeyedRecords} : \E i, j \in 1..Len(recs) :
          /\ recs[i].key = fromMonth /\ recs[i].key \in ResultMonths
          /\ StrLess(recs[j].key, fromMonth) /\ recs[j].key \notin ResultMonths

-----------------------------------------------------------------------------
(* Properties of calculateMaxCollateral (SpecCollateral) *)

AllNonNegative ==
    /\ \A i \in 1..Len(options) : options[i].Strike >= 0 /\ options[i].Contracts >= 0
    /\ \A i \in 1..Len(longPositions) : longPositions[i].BuyPrice >= 0 /\ longPositions[i].Shares >= 0

\* C3: the value calculateMaxCollateral returns is at least the initial
\* collateral it computed for the month, and at least 0 when every strike,
\* contract count, buy price and share count is non-negative.
C3_PeakAtLeastInitial ==
    Done =>
        /\ maxCollateral >= initialCollateral
        /\ AllNonNegative => maxCollateral >= 0

\* a sweep that ends below the collateral of the month start
C3_Witness ==
    /\ Done
    /\ Len(events) > 0
    /\ current < initialCollateral
    /\ maxCollateral >= initialCollateral

\* every close date is on or after the open date of its record
CloseNotBeforeOpen ==
    /\ \A i \in 1..Len(options) :
          options[i].Closed = NoDate \/ ~Before(options[i].Closed, options[i].Opened)
    /\ \A i \in 1..Len(longPositions) :
          longPositions[i].Closed = NoDate \/ ~Before(longPositions[i].Closed, longPositions[i].Opened)

\* the record is active at t: open <= t, and not closed or t < close
ActiveAt(r, t) == ~Before(t, r.Opened) /\ (r.Closed = NoDate \/ Before(t, r.Closed))

\* the collateral of the records active at t
CollateralAt(t) ==
    SumSeq([i \in 1..Len(options) |->
               IF options[i].Type = "Put" /\ ActiveAt(options[i], t)
               THEN options[i].Strike * options[i].Contracts * 100 ELSE 0])
    + SumSeq([i \in 1..Len(longPositions) |->
                 IF ActiveAt(longPositions[i], t)
                 THEN longPositions[i].BuyPrice * longPositions[i].Shares ELSE 0])

\* the dates t with firstOfMonth(M) <= t < firstOfMonth(M+1), M the month of ym
DaysOfMonth ==
    LET p == SscanfYearMonth(ym) IN {Day(p.year, p.month, d) : d \in 1..DaysIn(p.year, p.month)}

PeakSimultaneousCollateral ==
    LET sums == {CollateralAt(t) : t \in DaysOfMonth}
    IN  CHOOSE s \in sums : \A o \in sums : o <= s

\* C4: for records whose close date is not before their open date,
\* calculateMaxCollateral returns the peak simultaneous collateral of the
\* month: the maximum over the dates t of the month of the collateral of the
\* records active at t (open <= t, and not closed or t < close).
C4_PeakSimultaneousCollateral ==
    (Done /\ CloseNotBeforeOpen) => maxCollateral = PeakSimultaneousCollateral

-----------------------------------------------------------------------------
(* Properties of monthlyHandler (SpecHandler) *)

\* the key of the calendar month n months before the month of t
MonthsBefore(t, n) ==
    LET index == t.y * 12 + (t.m - 1) - n
    IN  Key(index \div 12, (index % 12) + 1)

\* C9: without an explicit range the window is exactly 12 months long for
\* every current date: toMonth is the current month and fromMonth the month
\* 11 months before it.
C9_DefaultWindowIsTwelveMonths ==
    (Done /\ query.from = EmptyStr /\ query.to = EmptyStr) =>
        /\ toMonth = Key(now.y, now.m)
        /\ fromMonth = MonthsBefore(now, 11)

\* C10: the default window replaces the range only when both from and to are
\* absent: a single supplied bound is passed on unchanged and the other side
\* is unbounded.
C10_DefaultOnlyWhenBothAbsent ==
    Done =>
        /\ (query.from # EmptyStr /\ query.to = EmptyStr)
              => (fromMonth = query.from /\ toMonth = EmptyStr)
        /\ (query.from = EmptyStr /\ query.to # EmptyStr)
              => (fromMonth = EmptyStr /\ toMonth = query.to)

-----------------------------------------------------------------------------
(* Empty and failed inputs (Spec, SpecHandler) *)

NoRecords == options = <<>> /\ dividends = <<>> /\ longPositions = <<>>

\* C11: for empty option, dividend and long-position inputs and any month
\* range, buildMonthlyData returns a result (it does not fail), and the result
\* has GrandTotal 0, an empty month list, empty per-month and per-ticker
\* series, collateral and APR included, and an empty ticker matrix.
C11_EmptyInputsEmptyResult ==
    NoRecords =>
        /\ \A from \in RangeBounds, to \in RangeBounds :
              buildMonthlyData(symbols, <<>>, <<>>, <<>>, optionsIndex, from, to) # {}
        /\ Done =>
              /\ data.GrandTotal = 0
              /\ data.TableYearMonths = <<>> /\ data.TableMonthLabels = <<>>
              /\ data.TableData = <<>> /\ data.TableTotalsByMonth = EmptyMap
              /\ data.TotalsByMonth = <<>>
              /\ data.CollateralByMonth = <<>> /\ data.APRByMonth = <<>>
              /\ \A chart \in {data.PutsData, data.CallsData, data.CapGainsData, data.DividendsData} :
                    chart.ByMonth = <<>> /\ chart.ByTicker = <<>>

\* no record at all and a range with both bounds set
C11_Witness ==
    /\ Done /\ NoRecords
    /\ fromMonth # EmptyStr /\ toMonth # EmptyStr
    /\ data.GrandTotal = 0 /\ data.TableYearMonths = <<>>

\* the five inputs of buildMonthlyData when the retrievals of errs failed
Substituted(errs) ==
    [symbols |-> IF "symbols" \in errs THEN <<>> ELSE symbols,
     options |-> IF "options" \in errs THEN <<>> ELSE options,
     optionsIndex |-> IF "optionsIndex" \in errs THEN EmptyMap ELSE optionsIndex,
     dividends |-> IF "dividends" \in errs THEN <<>> ELSE dividends,
     longPositions |-> IF "longPositions" \in errs THEN <<>> ELSE longPositions]

\* the results of buildMonthlyData on these inputs
AggregatesOf(in, from, to) ==
    buildMonthlyData(in.symbols, in.options, in.dividends, in.longPositions,
                     in.optionsIndex, from, to)

\* C12: whichever of the five retrievals fail, monthlyHandler builds the
\* aggregate (the request is not aborted), and the aggregate is the one of the
\* retrieved sources with an empty set in the place of exactly the failed ones.
C12_FailedSourceAloneIsEmptied ==
    /\ pc = "start" =>
          \A errs \in SUBSET Sources : \A range \in {HandlerRange(EmptyStr, EmptyStr, now)} :
             AggregatesOf(Substituted(errs), range.from, range.to) # {}
    /\ Done =>
          /\ data \in AggregatesOf(Substituted(failed), fromMonth, toMonth)
          /\ data.Symbols = IF "symbols" \in failed THEN <<>> ELSE symbols
          /\ data.OptionsIndex = IF "optionsIndex" \in failed THEN EmptyMap ELSE optionsIndex

\* the options alone could not be retrieved: the page has no put or call and
\* keeps the symbols, the dividends and the collateral of the long position
C12_Witness ==
    /\ Done
    /\ failed = {"options"}
    /\ options # <<>> /\ dividends # <<>> /\ longPositions # <<>>
    /\ data.Symbols = symbols /\ data.Symbols # <<>>
    /\ data.PutsData.ByTicker = <<>>
    /\ data.DividendsData.ByTicker # <<>>
    /\ \E i \in Months : data.CollateralByMonth[i].Amount = 5000

-----------------------------------------------------------------------------
(* Properties of buildSymbolMonthlyResults (SpecSymbol) *)

CalendarMonthNames ==
    <<"January", "February", "March", "April", "May", "June",
      "July", "August", "September", "October", "November", "December">>

\* the options opened in the m-th calendar month of any year, of the type
OpenedInMonth(m, type) ==
    SelectSeq(options, LAMBDA o : o.Opened.m = m /\ o.Type = type)

ProfitOf(opts) == SumSeq([i \in 1..Len(opts) |-> opts[i].TotalProfit])

\* C13: for any list of options, the empty list included,
\* buildSymbolMonthlyResults returns exactly twelve entries, the i-th being the
\* one of the i-th calendar month, January to December, each month exactly
\* once; a month with no option has counts 0 and totals 0.
C13_TwelveMonthsInCalendarOrder ==
    Done =>
        /\ Len(results) = 12
        /\ \A i \in 1..12 : results[i].Month = CalendarMonthNames[i]
        /\ \A i, j \in 1..12 : results[i].Month = results[j].Month => i = j
        /\ \A i \in 1..12 :
              (\A k \in 1..Len(options) : options[k].Opened.m # i) =>
                 /\ results[i].PutsCount = 0 /\ results[i].CallsCount = 0
                 /\ results[i].PutsTotal = 0 /\ results[i].CallsTotal = 0
                 /\ results[i].Total = 0

\* options in March only: eleven empty months around it; and no option at all
C13_Witness ==
    /\ Done
    /\ \/ options = <<>>
       \/ /\ options # <<>>
          /\ \A k \in 1..Len(options) : options[k].Opened.m = 3
    /\ Len(results) = 12
    /\ results[1].Month = "January" /\ results[1].Total = 0
    /\ results[12].Month = "December" /\ results[12].PutsCount = 0

\* C14: each option is counted in the bucket of the calendar month of its
\* open date whatever the year: the put count, call count, put total and call
\* total of a bucket are the sums over the options opened in that calendar
\* month of any year, and Total = PutsTotal + CallsTotal.
C14_BucketIsMonthOfOpenDate ==
    Done =>
        \A i \in 1..Len(results) :
            /\ results[i].PutsCount = Len(OpenedInMonth(i, "Put"))
            /\ results[i].CallsCount = Len(OpenedInMonth(i, "Call"))
            /\ results[i].PutsTotal = ProfitOf(OpenedInMonth(i, "Put"))
            /\ results[i].CallsTotal = ProfitOf(OpenedInMonth(i, "Call"))
            /\ results[i].Total = results[i].PutsTotal + results[i].CallsTotal

\* two puts opened in March 2023 and March 2024 and a call of March 2024
C14_Witness ==
    /\ Done
    /\ \E a, b, c \in 1..Len(options) :
          /\ options[a].Opened = Day(2023, 3, 5) /\ options[a].Type = "Put"
          /\ options[b].Opened = Day(2024, 3, 20) /\ options[b].Type = "Put"
          /\ options[c].Opened.m = 3 /\ options[c].Type = "Call"
          /\ options[a].TotalProfit = 500 /\ options[b].TotalProfit = -200
    /\ results[3].PutsCount = 2 /\ results[3].PutsTotal = 300
    /\ results[3].CallsCount = 1
    /\ results[3].Total = 300 + results[3].CallsTotal

-----------------------------------------------------------------------------
(* Concurrent calls of buildMonthlyData (SpecConcurrent) *)

\* the results the call p may return when it runs alone
ResultsAlone(p) ==
    buildMonthlyData(symbols, options, dividends, longPositions, optionsIndex,
                     invocations.frames[p].from, invocations.frames[p].to)

\* C15: two calls of buildMonthlyData interleaved in any way over the same
\* record slices each return a result the call returns when it runs alone, and
\* no step of a call changes the records or the slices.
C15_ConcurrentCallsAsAlone ==
    /\ [](\A p \in Invocations :
             invocations.frames[p].pc = "done" => invocations.frames[p].result \in ResultsAlone(p))
    /\ [][UNCHANGED <<symbols, options, optionsIndex, dividends, longPositions>>]_vars

\* the second call has returned a non-empty result for its range while the
\* first, called with another range, is between two iterations of its loops
C15_Witness ==
    /\ invocations # <<>>
    /\ invocations.frames["second"].pc = "done"
    /\ invocations.frames["second"].result.TableYearMonths # <<>>
    /\ invocations.frames["first"].pc = "loops"
    /\ invocations.frames["first"].k = 1
    /\ invocations.frames["first"].from # invocations.frames["second"].from
    /\ invocations.maps["first"] # invocations.maps["second"]

-----------------------------------------------------------------------------
(* Attribution of the records to months and rows (Spec) *)

\* the long positions without a close date
OpenPositions == {i \in 1..Len(longPositions) : longPositions[i].Closed = NoDate}

\* C16: a long position without a close date is left out of the realized-gain
\* aggregation: with the position taken out of the input, the month list, the
\* capital-gains month and ticker series, the ticker x month matrix, the totals
\* and the grand total are the same.
C16_OpenPositionNotAggregated ==
    Done =>
        \A series \in {AggregationSeries(data)} : \A i \in OpenPositions :
            AggregationSeries(ResultOn(options, dividends, RemoveAt(longPositions, i))) = series

\* an open position next to other records: it is in the collateral of a month
\* of the result and in no capital-gains bucket
C16_Witness ==
    /\ Done
    /\ OpenPositions = 1..Len(longPositions) /\ longPositions # <<>>
    /\ fromMonth = EmptyStr
    /\ data.TableYearMonths # <<>>
    /\ data.CapGainsData.ByTicker = <<>>
    /\ \A i \in Months : data.CapGainsData.ByMonth[i].Amount = 0
    /\ \E i \in Months : data.CollateralByMonth[i].Amount >= 5000

\* the sum of amount(r) over the records of recs whose month key is key
AmountOfMonth(recs, KeyOf(_), AmountOf(_), key) ==
    SumSeq([i \in 1..Len(recs) |-> IF KeyOf(recs[i]) = key THEN AmountOf(recs[i]) ELSE 0])

PutProfit(o) == IF o.Type = "Put" THEN o.TotalProfit ELSE 0
CallProfit(o) == IF o.Type = "Call" THEN o.TotalProfit ELSE 0
DividendAmount(d) == d.Amount
RealizedGain(p) == (p.ExitPrice - p.BuyPrice) * p.Shares

ClosedPositions == SelectSeq(longPositions, LAMBDA p : p.Closed # NoDate)

\* C17: every record in the range counts in exactly one month: for every month
\* of the result, the put and call totals are the profits of the options
\* opened in that month (whenever they are closed), the dividend total the
\* amounts of the dividends received in that month, and the capital gain the
\* sum of (exit price - buy price) x shares of the positions closed in that
\* month (whenever they were opened).
C17_AmountInItsMonth ==
    Done =>
        \A i \in Months : \A key \in {data.TableYearMonths[i]} :
            /\ data.PutsData.ByMonth[i].Amount = AmountOfMonth(options, OptionKey, PutProfit, key)
            /\ data.CallsData.ByMonth[i].Amount = AmountOfMonth(options, OptionKey, CallProfit, key)
            /\ data.DividendsData.ByMonth[i].Amount =
                  AmountOfMonth(dividends, DividendKey, DividendAmount, key)
            /\ data.CapGainsData.ByMonth[i].Amount =
                  AmountOfMonth(ClosedPositions, PositionKey, RealizedGain, key)

\* an option opened in January and closed in February and a position opened
\* the year before and closed in January: January is the only month
C17_Witness ==
    /\ Done
    /\ fromMonth = EmptyStr /\ toMonth = EmptyStr
    /\ dividends = <<>>
    /\ Len(options) = 1 /\ Len(longPositions) = 1
    /\ options[1].Opened = Day(2024, 1, 10) /\ options[1].Closed = Day(2024, 2, 5)
    /\ options[1].Type = "Put"
    /\ longPositions[1].Opened = Day(2023, 6, 1) /\ longPositions[1].Closed = Day(2024, 1, 20)
    /\ data.TableYearMonths = <<Key(2024, 1)>>
    /\ data.PutsData.ByMonth[1].Amount = -500
    /\ data.CapGainsData.ByMonth[1].Amount = 500

RowTickers == {data.TableData[r].Ticker : r \in 1..Len(data.TableData)}

CellSum(cells) == SumOver(cells, DOMAIN cells)

\* C18: a ticker has a row in TableData, and only one, iff the sum of its
\* matrix cells over all months is not zero; the Total of every row is the sum
\* of the row's month cells, which are the ticker's matrix cells.
C18_RowIffNonZeroTotal ==
    Done =>
        \A matrix \in {Matrix} :
            /\ RowTickers = {t \in DOMAIN matrix : CellSum(matrix[t]) # 0}
            /\ \A r, q \in 1..Len(data.TableData) :
                  data.TableData[r].Ticker = data.TableData[q].Ticker => r = q
            /\ \A r \in 1..Len(data.TableData) :
                  /\ data.TableData[r].Total = CellSum(data.TableData[r].MonthValues)
                  /\ data.TableData[r].MonthValues = matrix[data.TableData[r].Ticker]

\* AAA has +500 in one month and -500 in another and no row; BBB has a row
C18_Witness ==
    /\ Done
    /\ RowTickers = {"BBB"}
    /\ \E matrix \in {Matrix} :
          /\ "AAA" \in DOMAIN matrix
          /\ \E k1, k2 \in DOMAIN matrix["AAA"] :
                k1 # k2 /\ matrix["AAA"][k1] = 500 /\ matrix["AAA"][k2] = -500
    /\ data.TableData[1].Total = 500

\* the month keys of the records that passed the range filter
KeysInWindow ==
    {KeyedRecords[i].key : i \in {j \in 1..Len(KeyedRecords) : KeyInWindow(KeyedRecords[j].key)}}

\* the per-month series of the result
MonthSeries ==
    <<data.PutsData.ByMonth, data.CallsData.ByMonth, data.CapGainsData.ByMonth,
      data.DividendsData.ByMonth, data.TotalsByMonth, data.CollateralByMonth, data.APRByMonth>>

\* C19: TableYearMonths is strictly ascending, hence without duplicates, and
\* holds exactly the month keys of the records that passed the range filter;
\* every per-month series (puts, calls, capital gains, dividends, combined
\* totals, collateral, APR) has one entry per month of the list, in its order.
C19_MonthsAscendingSeriesAligned ==
    Done =>
        /\ \A i \in Months : i > 1 => StrLess(data.TableYearMonths[i - 1], data.TableYearMonths[i])
        /\ ResultMonths = KeysInWindow
        /\ \A s \in 1..Len(MonthSeries) :
              /\ Len(MonthSeries[s]) = Len(data.TableYearMonths)
              /\ \A i \in Months : MonthSeries[s][i].Month = data.TableYearMonths[i]

\* three months, the records met in another order than the months'
C19_Witness ==
    /\ Done
    /\ Len(data.TableYearMonths) = 3
    /\ Len(options) = 2
    /\ StrLess(OptionKey(options[2]), OptionKey(options[1]))
    /\ data.TableYearMonths[1] = OptionKey(options[2])
    /\ data.CollateralByMonth[3].Month = data.TableYearMonths[3]

-----------------------------------------------------------------------------
(* Which records count in the collateral of a month (SpecCollateral) *)

\* [open, close), or [open, infinity) when the record is not closed, meets
\* [first of the month, first of the next month)
IntersectsMonth(r, key) ==
    /\ Before(r.Opened, MonthEnd(key))
    /\ r.Closed = NoDate \/ (Before(MonthStart(key), r.Closed) /\ Before(r.Opened, r.Closed))

NothingCollected == [initial |-> 0, events |-> <<>>]

\* the record adds to the initial collateral or emits an event
OptionContributes(o, key) ==
    ScanOption(NothingCollected, o, MonthStart(key), MonthEnd(key)) # NothingCollected

PositionContributes(p, key) ==
    ScanPosition(NothingCollected, p, MonthStart(key), MonthEnd(key)) # NothingCollected

\* C20: a put option or a long position contributes to the collateral of the
\* month (to the initial collateral or through an event) iff its half-open
\* active interval [open, close), [open, infinity) when it is not closed, meets
\* [first of the month, first of the next month).
C20_ContributesIffIntervalIntersects ==
    Done =>
        /\ \A i \in 1..Len(options) :
              options[i].Type = "Put" =>
                 (OptionContributes(options[i], ym) <=> IntersectsMonth(options[i], ym))
        /\ \A i \in 1..Len(longPositions) :
              PositionContributes(longPositions[i], ym) <=> IntersectsMonth(longPositions[i], ym)

-----------------------------------------------------------------------------
(* The collateral carried into the month (SpecCollateral) *)

\* the record was opened before the first day of the month and not closed
\* before that day
CarriedInto(r, startDate) ==
    /\ Before(r.Opened, startDate)
    /\ r.Closed = NoDate \/ ~Before(r.Closed, startDate)

\* the record was opened in the month
OpenedInside(r, startDate, endDate) ==
    ~Before(r.Opened, startDate) /\ Before(r.Opened, endDate)

ClosesBeforeEnd(r, endDate) == r.Closed # NoDate /\ Before(r.Closed, endDate)

\* the events a record stands for: none but the close event of a carried
\* record, the open event and the close event of one opened in the month
\* and not closed before it, none of any other record
EventCount(r, startDate, endDate) ==
    IF CarriedInto(r, startDate) THEN (IF ClosesBeforeEnd(r, endDate) THEN 1 ELSE 0)
    ELSE IF /\ OpenedInside(r, startDate, endDate)
            /\ r.Closed = NoDate \/ ~Before(r.Closed, startDate)
    THEN (IF ClosesBeforeEnd(r, endDate) THEN 2 ELSE 1)
    ELSE 0

Puts == SelectSeq(options, LAMBDA o : o.Type = "Put")

Collected == pc \in {"sweep", "done"}

\* C21: the initial collateral of the month is the sum of the collateral of
\* every put and long position opened before the first day of the month and
\* not closed before that day; such a record emits no open event (no event
\* lies before the first day) and a close event only if it closes before the
\* end of the month; the returned peak is at least that initial collateral.
C21_InitialCollateralIsCarried ==
    Collected =>
        \A puts \in {Puts}, startDate \in {MonthStart(ym)}, endDate \in {MonthEnd(ym)} :
            /\ initialCollateral =
                  SumSeq([i \in 1..Len(puts) |->
                             IF CarriedInto(puts[i], startDate)
                             THEN puts[i].Strike * puts[i].Contracts * 100 ELSE 0])
                  + SumSeq([i \in 1..Len(longPositions) |->
                               IF CarriedInto(longPositions[i], startDate)
                               THEN longPositions[i].BuyPrice * longPositions[i].Shares ELSE 0])
            /\ \A i \in 1..Len(events) : ~Before(events[i].date, startDate)
            /\ Len(events) =
                  SumSeq([i \in 1..Len(puts) |-> EventCount(puts[i], startDate, endDate)])
                  + SumSeq([i \in 1..Len(longPositions) |->
                               EventCount(longPositions[i], startDate, endDate)])
            /\ Done => maxCollateral >= initialCollateral

\* 100 shares bought at 50, opened 2023-06-01 and still open, in 2024-01
C21_Witness ==
    /\ Done
    /\ ym = Key(2024, 1)
    /\ options = <<>>
    /\ longPositions = <<[Symbol |-> "AAA", Opened |-> Day(2023, 6, 1), Closed |-> NoDate,
                          Shares |-> 100, BuyPrice |-> 50, ExitPrice |-> 0]>>
    /\ initialCollateral = 5000
    /\ events = <<>>
    /\ maxCollateral >= 5000

-----------------------------------------------------------------------------
(* The order of the sweep (SpecCollateral) *)

\* the events the two loops emitted, in the order of emission
Emitted == CollectEvents(ym, options, longPositions).events

RECURSIVE EmissionOrderByDate(_)
\* the events by ascending date, those of one date in the order of emission:
\* the first event of the earliest date, then the others likewise
EmissionOrderByDate(evs) ==
    IF evs = <<>> THEN <<>>
    ELSE LET first == CHOOSE i \in 1..Len(evs) :
                         /\ \A j \in 1..Len(evs) : ~Before(evs[j].date, evs[i].date)
                         /\ \A j \in 1..(i - 1) : evs[j].date # evs[i].date
         IN  <<evs[first]>> \o EmissionOrderByDate(RemoveAt(evs, first))

\* C22: the sweep applies the events by ascending date, and the events of one
\* date in the order in which the loops emitted them.
C22_DateOrderTiesInEmissionOrder ==
    Collected => events = EmissionOrderByDate(Emitted)

\* the peak the function returns for the records in another order
PeaksOfPermutations ==
    {calculateMaxCollateral(ym, opts, poss) :
        opts \in Arrangements(options), poss \in Arrangements(longPositions)}

\* C23: the peak calculateMaxCollateral returns for a month is the same for
\* every permutation of the input options and positions.
C23_PeakSameForEveryPermutation ==
    (Done /\ Len(options) <= MaxSweepRecords) => PeaksOfPermutations = {maxCollateral}

\* C24: for records with non-negative strikes, contract counts, buy prices
\* and share counts and no close date before the open date, the running total
\* of the sweep is never negative.
C24_RunningTotalNeverNegative ==
    (Collected /\ AllNonNegative /\ CloseNotBeforeOpen) => current >= 0

\* opts with the call put in before its k-th element
InsertCall(opts, call, k) ==
    SubSeq(opts, 1, k - 1) \o <<call>> \o SubSeq(opts, k, Len(opts))

\* C25: calls contribute no collateral: the initial collateral and the events
\* calculateMaxCollateral works on, and so the peak it returns, are those of
\* the puts and long positions alone, and stay the same when a call of any
\* strike, contract count and dates is added.
C25_CallsContributeNoCollateral ==
    Collected =>
        \A alone \in {CollectEvents(ym, puts, longPositions) : puts \in {Puts}} :
            /\ initialCollateral = alone.initial
            /\ Len(events) = Len(alone.events)
            /\ swept = 0 => events \in SortSlice(alone.events)
            /\ Done =>
                  /\ maxCollateral =
                        Sweep([current |-> alone.initial, max |-> alone.initial], events).max
                  /\ \A call \in SweepCalls, k \in 1..(Len(options) + 1) :
                        \A more \in {InsertCall(options, call, k)} :
                            CollectEvents(ym, more, longPositions) = alone

\* a call of 3 contracts at strike 70 held through 2024-01 next to a put
C25_Witness ==
    /\ Done
    /\ ym = Key(2024, 1)
    /\ \E i \in 1..Len(options) :
          /\ options[i].Type = "Call"
          /\ options[i].Strike * options[i].Contracts * 100 = 21000
          /\ ActiveAt(options[i], Day(2024, 1, 10))
    /\ \E i \in 1..Len(options) : options[i].Type = "Put"
    /\ maxCollateral = 20000

-----------------------------------------------------------------------------
(* The order of the per-ticker output (Spec) *)

\* the tickers of a per-ticker series are in ascending order
TickersAscending(series) ==
    \A i \in 1..(Len(series) - 1) : StrLess(series[i].Ticker, series[i + 1].Ticker)

\* C26: the output order is deterministic: equal input gives one result, the
\* per-ticker series and the table rows being in the ascending order of a
\* sorted list of tickers.
C26_OutputOrderDeterministic ==
    Done =>
        /\ buildMonthlyData(symbols, options, dividends, longPositions, optionsIndex,
                            fromMonth, toMonth) = {data}
        /\ TickersAscending(data.PutsData.ByTicker)
        /\ TickersAscending(data.CallsData.ByTicker)
        /\ TickersAscending(data.CapGainsData.ByTicker)
        /\ TickersAscending(data.DividendsData.ByTicker)
        /\ TickersAscending(data.TableData)

\* every option is a put or a call
PutsAndCallsOnly == \A i \in 1..Len(options) : options[i].Type \in {"Put", "Call"}

\* C27: when every option is a put or a call, GrandTotal is the sum over the
\* months of the amounts of TotalsByMonth.
C27_GrandTotalIsSumOfMonthTotals ==
    (Done /\ PutsAndCallsOnly) =>
        data.GrandTotal = SumSeq([i \in 1..Len(data.TotalsByMonth) |-> data.TotalsByMonth[i].Amount])

\* two months, an option, a dividend and a realized gain between them
C27_Witness ==
    /\ Done
    /\ PutsAndCallsOnly
    /\ Len(data.TotalsByMonth) = 2
    /\ options # <<>> /\ dividends # <<>> /\ ClosedPositions # <<>>
    /\ data.TotalsByMonth[1].Amount # 0
    /\ data.TotalsByMonth[2].Amount # 0
    /\ data.GrandTotal = 1500

-----------------------------------------------------------------------------
(* SpecUpdate: updateSymbolHandler *)

\* time.Parse("2006-01-02", value): four digits, a dash, two digits, a dash,
\* two digits and nothing else; the month is 1..12 and the day one of the
\* month.  [ok, date]
ParseDate(value) ==
    IF /\ Len(value) = 10
       /\ \A i \in {1, 2, 3, 4, 6, 7, 9, 10} : IsDigit(value[i])
       /\ value[5] = 45 /\ value[8] = 45
    THEN LET year == ScanDigits(value, 1, 4, [val |-> 0, next |-> 1, ok |-> FALSE]).val
             month == ScanDigits(value, 6, 2, [val |-> 0, next |-> 6, ok |-> FALSE]).val
             day == ScanDigits(value, 9, 2, [val |-> 0, next |-> 9, ok |-> FALSE]).val
         IN  IF month >= 1 /\ month <= 12 /\ day >= 1 /\ day <= DaysIn(year, month)
             THEN [ok |-> TRUE, date |-> [y |-> year, m |-> month, d |-> day]]
             ELSE [ok |-> FALSE, date |-> NoDate]
    ELSE [ok |-> FALSE, date |-> NoDate]

\* the text of a date in the layout 2006-01-02
DateText(year, month, day) ==
    SprintfYearMonth(year, month) \o Dash \o ZeroPad(Decimal(day), 2)

\* a field left out of the request is taken as zero
MergeField_ZeroWhenOmitted(existingValue, requested) ==
    IF requested # Nil THEN requested[1] ELSE 0

\* price := existingSymbol.Price; if updateReq.Price != nil { price = *updateReq.Price }
MergeField(existingValue, requested) ==
    IF requested # Nil THEN requested[1] ELSE existingValue

\* the ex-dividend date handed to Update: [ok, date]
MergeExDividendDate(existingDate, requested) ==
    IF requested = Nil THEN [ok |-> TRUE, date |-> existingDate]
    ELSE IF requested[1] = EmptyStr THEN [ok |-> TRUE, date |-> NoDate]
    ELSE ParseDate(requested[1])

\* if updateReq.PERatio != nil { peRatio = updateReq.PERatio }
MergePointer(existingPointer, requested) ==
    IF requested # Nil THEN requested ELSE existingPointer

\* what the handler leaves behind: the status written, the calls made, the
\* calls that failed and the rows of the table
Outcome(status, made, failures, rows) ==
    [response |-> status, calls |-> made, failed |-> failures, rows |-> rows]

\* the handler from GetBySymbol on.  GetBySymbol fails when there is no row
\* and when getErr; Create fails when there is a row and when createErr;
\* Update fails when updateErr.
UpdateKnownSymbol(req, rows, getErr, createErr, updateErr) ==
    LET symbol == req.symbol
        getFails == getErr \/ symbol \notin DOMAIN rows
        createFails == createErr \/ symbol \in DOMAIN rows
        get == ServiceCall("symbol", "GetBySymbol", <<symbol>>)
        create == ServiceCall("symbol", "Create", <<symbol>>)
        lookup == IF getFails THEN <<get, create>> ELSE <<get>>
        existingSymbol == IF getFails THEN CreatedRow ELSE rows[symbol]
        rowsNow == IF getFails THEN (symbol :> CreatedRow) @@ rows ELSE rows
        price == MergeField(existingSymbol.Price, req.Price)
        dividend == MergeField(existingSymbol.Dividend, req.Dividend)
        exDividendDate == MergeExDividendDate(existingSymbol.ExDividendDate, req.ExDividendDate)
        peRatio == MergePointer(existingSymbol.PERatio, req.PERatio)
        update == ServiceCall("symbol", "Update",
                              <<symbol, price, dividend, exDividendDate.date, peRatio>>)
    IN  IF getFails /\ createFails
        THEN Outcome(StatusInternalServerError, lookup, {"GetBySymbol", "Create"}, rows)
        ELSE IF ~exDividendDate.ok
        THEN Outcome(StatusBadRequest, lookup, IF getFails THEN {"GetBySymbol"} ELSE {}, rowsNow)
        ELSE IF updateErr
        THEN Outcome(StatusInternalServerError, Append(lookup, update),
                     (IF getFails THEN {"GetBySymbol"} ELSE {}) \cup {"Update"}, rowsNow)
        ELSE Outcome(StatusOK, Append(lookup, update),
                     IF getFails THEN {"GetBySymbol"} ELSE {},
                     (symbol :> SymbolRow(price, dividend, exDividendDate.date, peRatio)) @@ rowsNow)

\* updateSymbolHandler: the method, the symbol of the path and the body are
\* checked before any service is called
updateSymbolHandler(req, rows, getErr, createErr, updateErr) ==
    IF req.method # "PUT" THEN Outcome(StatusMethodNotAllowed, <<>>, {}, rows)
    ELSE IF req.symbol = "" THEN Outcome(StatusBadRequest, <<>>, {}, rows)
    ELSE IF ~req.decodes THEN Outcome(StatusBadRequest, <<>>, {}, rows)
    ELSE UpdateKnownSymbol(req, rows, getErr, createErr, updateErr)

\* the ex_dividend_date of a request: absent, empty, a date, a day that is
\* not of its month, a month of one digit, another layout
RequestDates ==
    {Nil, Ptr(EmptyStr), Ptr(DateText(2024, 3, 15)), Ptr(DateText(2024, 2, 30)),
     Ptr(Decimal(2024) \o Dash \o Decimal(3) \o Dash \o Decimal(15)),
     Ptr(Decimal(15) \o <<47>> \o Decimal(3) \o <<47>> \o Decimal(2024))}

UpdateRequests ==
    [method : {"PUT", "POST"}, symbol : {"", "AAA", "BBB"}, decodes : BOOLEAN,
     Price : {Nil, Ptr(175)}, Dividend : {Nil, Ptr(3)}, ExDividendDate : RequestDates,
     PERatio : {Nil, Ptr(25)}]

\* the rows before the request: AAA with or without an ex-dividend date and a
\* P/E ratio, BBB without a row
UpdateTables ==
    {("AAA" :> SymbolRow(150, 2, Day(2024, 1, 15), Ptr(30))),
     ("AAA" :> SymbolRow(150, 2, NoDate, Nil))}

InitUpdate ==
    /\ request \in UpdateRequests
    /\ symbolTable \in UpdateTables
    /\ response = NoResponse
    /\ calls = <<>>
    /\ failed = {}
    /\ pc = "start"
    /\ options = <<>>
    /\ dividends = <<>>
    /\ longPositions = <<>>
    /\ now = NoDate
    /\ query = [from |-> EmptyStr, to |-> EmptyStr]
    /\ fromMonth = EmptyStr
    /\ toMonth = EmptyStr
    /\ data = NoData
    /\ ym = EmptyStr
    /\ events = <<>>
    /\ initialCollateral = 0
    /\ current = 0
    /\ maxCollateral = 0
    /\ swept = 0
    /\ symbols = DistinctSymbols
    /\ optionsIndex = IndexedOptions
    /\ results = <<>>
    /\ invocations = <<>>

UpdateSymbolHandler ==
    /\ pc = "start"
    /\ \E getErr, createErr, updateErr \in BOOLEAN :
          \E out \in {updateSymbolHandler(request, symbolTable, getErr, createErr, updateErr)} :
              /\ response' = out.response
              /\ calls' = out.calls
              /\ failed' = out.failed
              /\ symbolTable' = out.rows
    /\ pc' = "done"
    /\ UNCHANGED <<request, options, dividends, longPositions, now, query, fromMonth,
                   toMonth, data, ym, events, initialCollateral, current, maxCollateral,
                   swept, symbols, optionsIndex, results, invocations>>

NextUpdate == UpdateSymbolHandler

SpecUpdate == InitUpdate /\ [][NextUpdate]_vars

-----------------------------------------------------------------------------
(* Properties of deleteSymbolHandler (SpecDelete) *)

\* the records one step deletes from
RecordsOfStep(step) ==
    CASE step = "dividends" -> dividends
      [] step = "longPositions" -> longPositions
      [] step = "options" -> options
      [] OTHER -> <<>>

HasRecordOf(recs, symbol) == \E i \in 1..Len(recs) : recs[i].Symbol = symbol

\* the four calls in the stated order: dividends, long positions, options,
\* symbol
StatedDeleteCalls ==
    [i \in 1..4 |->
        ServiceCall(<<"dividends", "longPositions", "options", "symbol">>[i],
                    IF i = 4 THEN "Delete" ELSE "DeleteBySymbol", <<request.symbol>>)]

DeleteOrderKept ==
    /\ Len(calls) <= 4
    /\ calls = SubSeq(StatedDeleteCalls, 1, Len(calls))
    \* a failed step is the last call, and is answered 500 at once
    /\ failed # {} <=> response = StatusInternalServerError
    /\ response = StatusInternalServerError =>
          /\ pc = "done"
          /\ failed = {calls[Len(calls)].service}
    /\ response = StatusOK =>
          /\ Len(calls) = 4
          /\ request.symbol \notin DOMAIN symbolTable
    \* what the steps that succeeded deleted stays deleted
    /\ \A i \in 1..Len(calls) :
          calls[i].service \notin failed =>
              ~HasRecordOf(RecordsOfStep(calls[i].service), request.symbol)

\* the row goes only after the three dependent deletions succeeded, and every
\* step deletes records of its own kind only
DeleteStepsGuarded ==
    /\ symbolTable' # symbolTable =>
          /\ Len(calls) = 3 /\ failed = {}
          /\ ~HasRecordOf(dividends, request.symbol)
          /\ ~HasRecordOf(longPositions, request.symbol)
          /\ ~HasRecordOf(options, request.symbol)
    /\ dividends' # dividends => Len(calls) = 0
    /\ longPositions' # longPositions => Len(calls) = 1
    /\ options' # options => Len(calls) = 2

\* C28: deleteSymbolHandler deletes in the order dividends, long positions,
\* options, symbol; the symbol row is deleted only after the three dependent
\* deletions succeeded; a step that fails is answered 500 and no later step
\* runs; the deletions of the earlier steps stay.
C28_DeleteOrderAndStopOnFailure ==
    [](request # NoRequest => DeleteOrderKept) /\ [][DeleteStepsGuarded]_vars

\* the deletion of the options failed: the dividends and long positions of
\* the symbol are gone, its options and its row are still there
C28_Witness ==
    /\ request # NoRequest
    /\ response = StatusInternalServerError
    /\ failed = {"options"}
    /\ Len(calls) = 3
    /\ HasRecordOf(options, request.symbol)
    /\ request.symbol \in DOMAIN symbolTable
    /\ dividends # <<>>
    /\ ~HasRecordOf(dividends, request.symbol)
    /\ ~HasRecordOf(longPositions, request.symbol)

-----------------------------------------------------------------------------
(* Properties of updateSymbolHandler (SpecUpdate) *)

\* the row the handler starts from: the symbol's row, or the row created for
\* a symbol that had none
ExistingRow ==
    IF request.symbol \in DOMAIN symbolTable THEN symbolTable[request.symbol] ELSE CreatedRow

\* the arguments of the Update calls among cs
UpdateArgs(cs) == {cs[i].args : i \in {j \in 1..Len(cs) : cs[j].method = "Update"}}

\* the request carries an ex-dividend date that is neither empty nor a date
UnparseableDate ==
    /\ request.ExDividendDate # Nil
    /\ request.ExDividendDate[1] # EmptyStr
    /\ ~ParseDate(request.ExDividendDate[1]).ok

\* the request gets as far as the fields: a PUT with a symbol and a body that
\* decodes, for a symbol that is found or created
ReachesFields(failures) ==
    /\ request.method = "PUT"
    /\ request.symbol # ""
    /\ request.decodes
    /\ "Create" \notin failures

\* one request, from its arrival to the answer
UpdateFrame ==
    (request # NoRequest /\ calls = <<>> /\ calls' # calls) =>
        /\ \A args \in UpdateArgs(calls') :
              /\ args[1] = request.symbol
              /\ request.Price = Nil => args[2] = ExistingRow.Price
              /\ request.Price # Nil => args[2] = request.Price[1]
              /\ request.Dividend = Nil => args[3] = ExistingRow.Dividend
              /\ request.Dividend # Nil => args[3] = request.Dividend[1]
              /\ request.ExDividendDate = Nil => args[4] = ExistingRow.ExDividendDate
              /\ request.ExDividendDate = Ptr(EmptyStr) => args[4] = NoDate
              /\ request.PERatio = Nil => args[5] = ExistingRow.PERatio
              /\ request.PERatio # Nil => args[5] = request.PERatio
        /\ UnparseableDate =>
              /\ UpdateArgs(calls') = {}
              /\ ReachesFields(failed') => response' = StatusBadRequest
        /\ (ReachesFields(failed') /\ ~UnparseableDate) => Cardinality(UpdateArgs(calls')) = 1

\* C29: updateSymbolHandler changes only the fields present in the request:
\* a price, dividend, ex-dividend date or P/E ratio that is omitted has the
\* symbol's existing value in the Update call, an ex-dividend date given as
\* the empty string is cleared, and a request with an unparseable ex-dividend
\* date is answered 400 and Update is not called.
C29_OnlyPresentFieldsChange == [][UpdateFrame]_vars

\* a request with a dividend and an empty ex-dividend date for AAA, whose row
\* has price 150 and P/E ratio 30: Update gets 150, the new dividend, no date
\* and 30
C29_Witness ==
    /\ request # NoRequest
    /\ request.symbol = "AAA"
    /\ request.Price = Nil /\ request.PERatio = Nil
    /\ request.Dividend = Ptr(3)
    /\ request.ExDividendDate = Ptr(EmptyStr)
    /\ response = StatusOK
    /\ UpdateArgs(calls) = {<<"AAA", 150, 3, NoDate, Ptr(30)>>}
    /\ symbolTable["AAA"] = SymbolRow(150, 3, NoDate, Ptr(30))

\* a request whose ex-dividend date is 2024-02-30 is answered 400
C29_WitnessUnparseable ==
    /\ request # NoRequest
    /\ request.ExDividendDate = Ptr(DateText(2024, 2, 30))
    /\ request.Price # Nil
    /\ response = StatusBadRequest
    /\ Len(calls) = 1
    /\ symbolTable["AAA"].Price = 150

-----------------------------------------------------------------------------
(* Every option counts once (SpecSymbol) *)

NotPuts == SelectSeq(options, LAMBDA o : o.Type # "Put")

\* C30: in buildSymbolMonthlyResults every input option is counted exactly
\* once: over the twelve buckets PutsCount + CallsCount sums to the number of
\* input options, an option that is not a put counting as a call, and Total
\* sums to the total profit of all input options.
C30_EveryOptionCountedOnce ==
    Done =>
        /\ SumSeq([i \in 1..Len(results) |-> results[i].PutsCount + results[i].CallsCount])
              = Len(options)
        /\ SumSeq([i \in 1..Len(results) |-> results[i].CallsCount]) = Len(NotPuts)
        /\ SumSeq([i \in 1..Len(results) |-> results[i].PutsCount]) = Len(options) - Len(NotPuts)
        /\ SumSeq([i \in 1..Len(results) |-> results[i].Total]) = ProfitOf(options)

\* three options, a call among them, two of them in one bucket, a loss among
\* the profits
C30_Witness ==
    /\ Done
    /\ Len(options) = 3
    /\ Len(NotPuts) = 1
    /\ options[1].Opened.m = options[2].Opened.m
    /\ options[1].Opened.m # options[3].Opened.m
    /\ ProfitOf(options) = 800
    /\ SumSeq([i \in 1..Len(results) |-> results[i].Total]) = 800

====
